---- MODULE Spec2Model ----
(***************************************************************************)
(* Model of the stream ingestion, segmentation and delivery pipeline of    *)
(* SecureWatch: the detection engine (backend-analysis/detect_engine.py,   *)
(* class SecureWatchDetector, modes UPLOAD / LIVE / HTTP) and the          *)
(* fresh-frame buffer of the vision workers (backend/vision_worker_v3.py,  *)
(* class FreshFrame, and run_worker).                                      *)
(*                                                                         *)
(* Spec    : one detector instance, its main thread, stop() and the OS     *)
(*           signal handler.                                               *)
(* LiveSpec: the same in LIVE mode, the main thread scheduled fairly.      *)
(* HttpSpec: the same in HTTP mode, the main thread scheduled fairly.      *)
(* FFSpec  : one FreshFrame with its reader thread, the worker loop that   *)
(*           consumes it and release().                                    *)
(* FairSpec: Spec with the main thread scheduled fairly.                   *)
(* HbSpec  : Spec with the heartbeat thread and the exit of the process.   *)
(* DeliverySpec: calls of _post_detection and _send_episode under every    *)
(*           configuration and every answer of the transports.             *)
(* AlertSpec: calls of _send_telegram_alert as time passes.                *)
(* PairSpec: two runs of one session loop on the same reads, each with     *)
(*           delivery results of its own.                                  *)
(* FFFairSpec: FFSpec with the worker loop and the reader thread scheduled *)
(*           fairly.                                                       *)
(*                                                                         *)
(* The loops call _post_detection, _send_episode and _send_telegram_alert  *)
(* for their effects outside the detector only; what these read and write  *)
(* (redis_client, endpoint, last_alert_time) no loop reads.  Spec records  *)
(* the calls (posted, sent); DeliverySpec and AlertSpec model what a call  *)
(* does.                                                                   *)
(***************************************************************************)
EXTENDS Integers, Sequences, FiniteSets, TLC

(***************************************************************************)
(* Bounds of the model.                                                    *)
(***************************************************************************)
\* detect calls made over one run of the detector
MaxProcessed == 5
\* source frames the fresh-frame reader can obtain
MaxSrc == 2
\* read() calls of the worker loop; the calls that find the buffer still
\* empty are not counted past the bound
MaxWorkerReads == 2
\* boxes one detection pass of the worker can return
MaxBoxes == 1
\* time.time() when the detector starts, and the last second modelled
StartTime == 100
MaxTime == 135
\* delivery calls and alert gate calls made over one run
MaxCalls == 2
MaxAlertCalls == 3

(***************************************************************************)
(* Thresholds of the detector.  The code compares counters with them and   *)
(* does nothing else with their values; the model keeps the comparisons    *)
(* and scales the values (source values in the comments) so that every     *)
(* threshold is crossed within MaxProcessed detect calls.                  *)
(***************************************************************************)
\* detect_engine.py:340  SILENCE_THRESHOLD = 15
LIVE_SILENCE_THRESHOLD == 2
\* detect_engine.py:341  MAX_EPISODE_FRAMES = 300
LIVE_MAX_EPISODE_FRAMES == 3
\* detect_engine.py:345  max_failures = 30
LIVE_MAX_FAILURES == 3
\* detect_engine.py:526  SILENCE_THRESHOLD = 6
HTTP_SILENCE_THRESHOLD == 2
\* detect_engine.py:527  MAX_EPISODE_FRAMES = 120
HTTP_MAX_EPISODE_FRAMES == 3
\* detect_engine.py:528  MAX_FAILURES = 20
HTTP_MAX_FAILURES == 2
\* detect_engine.py:487  max_reconnects = 100
MAX_RECONNECTS == 2
\* detect_engine.py:63   LIVE_FRAME_SKIP = 3
LIVE_FRAME_SKIP == 3
\* detect_engine.py:60   FILE_FRAME_SKIP = 10
FILE_FRAME_SKIP == 10
\* detect_engine.py:71   ALERT_COOLDOWN = 30, in seconds
ALERT_COOLDOWN == 30
\* detect_engine.py:72   ALERT_CONFIDENCE_THRESHOLD = 0.7, in hundredths
ALERT_CONFIDENCE_THRESHOLD == 70

Modes == {"UPLOAD", "LIVE", "HTTP"}

\* line 103: the constructor takes any string and stores it in upper case
ModeArgs == Modes \cup {"BOGUS"}

(***************************************************************************)
(* Detections.  _detect_frame returns a list of records; the model draws   *)
(* the list from Batches.  Confidence is in percent.                       *)
(***************************************************************************)
DetPerson == [class |-> "person", confidence |-> 80, bbox |-> <<16, 12, 48, 36>>]
DetCar == [class |-> "car", confidence |-> 50, bbox |-> <<0, 24, 21, 47>>]

\* frame.shape[:2] of the frames of the source, in pixels
FrameDimensions == [width |-> 64, height |-> 48]
Batches == {<<>>, <<DetCar, DetPerson>>}

VARIABLES
    mode,                \* self.mode
    pc,                  \* position of the main thread
    running,             \* self.running
    cap,                 \* self.cap: "None", "open" or "closed"
    http_session,        \* self.http_session is not None
    frame_count,         \* self.frame_count
    active_frames,       \* active_frames / episode_frames of the current loop
    detections_summary,  \* detections_summary of the current loop
    silence_counter,     \* silence_counter
    episode_start_time,  \* episode_start_time: <<>> is None, <<t>> a time
    episode_count,       \* episode_count
    consecutive_failures,\* consecutive_failures
    reconnect_count,     \* reconnect_count of _run_http_loop
    sent,                \* the calls of _send_episode, in order
    posted,              \* the calls of _post_detection, in order
    exited,              \* how start() ended: "no", "returned", "raised", "sysexit"
    \* history of the run, written by no line of the code
    hist,                \* per session: frame number and has_detections of each
                         \* processed frame
    flushed,             \* per session: frame numbers sent by the segmenter
    failrun,             \* per session: failed reads since the last good read
    buffered,            \* frame numbers appended to an episode buffer, in order
    nproc,               \* detect calls made
    sessions,            \* polling sessions started (_http_polling_session)
    polls,               \* snapshot fetches made
    allfail,             \* no read or fetch has succeeded so far
    \* the fresh-frame buffer (class FreshFrame) and its users
    ff_cap,              \* self.cap: "unset", "open", "closed" or "released"
    ff_frame,            \* self.frame: 0 is None, n > 0 the n-th source frame
    ff_success,          \* self.success
    ff_running,          \* self.running
    ff_lock,             \* holder of self.lock: "free", "reader" or "worker"
    rd_pc,               \* position of the _reader thread
    rd_success,          \* its local success
    rd_frame,            \* its local frame
    wk_pc,               \* position of run_worker
    wk_success,          \* success and frame as returned by cap.read()
    wk_frame,
    rl_pc,               \* position of a caller of release()
    uploaded,            \* keys put into the bucket
    published,           \* events published on the channel, in order
    heartbeat,           \* the worker's liveness marker is in the store
    \* history of the run, written by no line of the code
    src_next,            \* the next frame the source will deliver
    written,             \* the (success, frame) pairs of the reader's updates
    wk_reads,            \* read() calls made by the worker
    completed,           \* frame of the reader's last completed update, 0 if none
    wk_latest,           \* value of completed when read() last took the lock
    \* delivery: _post_detection and _send_episode
    redis_client,        \* self.redis_client is not None
    endpoint,            \* self.endpoint is set
    dl_log,              \* the transport operations attempted, in order
    dl_results,          \* how each delivery call ended, in order
    \* the alert gate: _send_telegram_alert
    telegram_enabled,    \* TELEGRAM_ENABLED
    now,                 \* time.time(), in seconds
    last_alert_time,     \* self.last_alert_time
    alerts,              \* the calls of send_alert, in order
    al_calls,            \* the calls of the gate: their time and their batch
    \* the heartbeat thread of the detector
    hb_pc,               \* position of heartbeat_loop
    marker,              \* heartbeat:detector:<cam_id> is in the store
    \* two runs of one session loop on the same reads
    runA,                \* the locals and the calls of the first run
    runB                 \* the locals and the calls of the second run

engineVars == <<mode, pc, running, cap, http_session, frame_count, active_frames,
                detections_summary, silence_counter, episode_start_time,
                episode_count, consecutive_failures, reconnect_count, sent,
                posted, exited, hist, flushed, failrun, buffered, nproc, sessions,
                polls, allfail>>

ffVars == <<ff_cap, ff_frame, ff_success, ff_running, ff_lock, rd_pc, rd_success,
            rd_frame, wk_pc, wk_success, wk_frame, rl_pc, uploaded, published,
            heartbeat, src_next, written, wk_reads, completed, wk_latest>>

dlVars == <<redis_client, endpoint, dl_log, dl_results>>

alVars == <<telegram_enabled, now, last_alert_time, alerts, al_calls>>

hbVars == <<hb_pc, marker>>

pairVars == <<runA, runB>>

svcVars == <<dlVars, alVars, hbVars, pairVars>>

vars == <<engineVars, ffVars, svcVars>>

(***************************************************************************)
(* Pure helpers.                                                           *)
(***************************************************************************)
EmptySummary == [c \in {} |-> 0]

\* detections_summary[cls_name] = detections_summary.get(cls_name, 0) + 1
AddCount(s, c) ==
    [x \in DOMAIN s \cup {c} |->
        IF x = c THEN (IF c \in DOMAIN s THEN s[c] + 1 ELSE 1) ELSE s[x]]

RECURSIVE MergeSummary(_, _)
MergeSummary(s, dets) ==
    IF dets = <<>> THEN s
    ELSE MergeSummary(AddCount(s, Head(dets).class), Tail(dets))

\* the frame_detections list built from the detections of one frame
FrameDetections(dets) ==
    [i \in DOMAIN dets |->
        [label |-> dets[i].class, confidence |-> dets[i].confidence,
         bbox |-> dets[i].bbox]]

\* the record appended to the episode buffer
FrameRecord(frames, dets, fc) ==
    [seq |-> Len(frames), detections |-> FrameDetections(dets), frame_number |-> fc]

\* round(a / b, 4), in ten-thousandths
Round4(a, b) == (2 * 10000 * a + b) \div (2 * b)

\* the detection_list of _create_episode_data, lines 757-771
DetectionList(dets) ==
    [i \in DOMAIN dets |->
        [label |-> dets[i].class, confidence |-> dets[i].confidence,
         bbox |-> dets[i].bbox,
         bbox_normalized |->
            <<Round4(dets[i].bbox[1], FrameDimensions.width),
              Round4(dets[i].bbox[2], FrameDimensions.height),
              Round4(dets[i].bbox[3], FrameDimensions.width),
              Round4(dets[i].bbox[4], FrameDimensions.height)>>]]

\* _create_episode_data: the per-frame event
EpisodeData(dets, fc) ==
    [frame_number |-> fc, detections |-> DetectionList(dets),
     detection_count |-> Len(dets)]

FrameNumbers(frames) == [i \in DOMAIN frames |-> frames[i].frame_number]

\* one call of _send_episode from the call site at line `site`
SendEpisode(s, frames, summary, site) ==
    Append(s, [frames |-> frames, summary |-> summary, site |-> site])

\* "if active_frames: self._send_episode(...)"
SendIfAny(s, frames, summary, site) ==
    IF frames # <<>> THEN SendEpisode(s, frames, summary, site) ELSE s

\* the cap test of lines 417 and 597, off by one
CapReachedLate(n, maxFrames) == n > maxFrames

\* len(active_frames) >= MAX_EPISODE_FRAMES
CapReached(n, maxFrames) == n >= maxFrames

\* the silence test of lines 432 and 611, off by one
SilenceElapsedLate(c, threshold, frames) == c > threshold /\ frames # <<>>

\* the silence test of lines 432 and 611 without "and active_frames"
SilenceElapsedAnyBuffer(c, threshold, frames) == c >= threshold

\* silence_counter >= SILENCE_THRESHOLD and active_frames
SilenceElapsed(c, threshold, frames) == c >= threshold /\ frames # <<>>

\* the failure test of lines 351/452 and 531/639, off by one
CeilingReachedLate(f, maxFailures) == f > maxFailures

\* consecutive_failures >= max_failures
CeilingReached(f, maxFailures) == f >= maxFailures

\* the skip test of lines 215 and 363 on the frame after the multiple
SkippedFrameShifted(fc, skip) == fc % skip # 1

\* self.frame_count % FRAME_SKIP != 0
SkippedFrame(fc, skip) == fc % skip # 0

\* reconnect_count < max_reconnects, off by one
ReconnectsLeftLate(rc, maxReconnects) == rc <= maxReconnects

\* reconnect_count < max_reconnects
ReconnectsLeft(rc, maxReconnects) == rc < maxReconnects

SilenceThreshold == IF mode = "LIVE" THEN LIVE_SILENCE_THRESHOLD ELSE HTTP_SILENCE_THRESHOLD
MaxEpisodeFrames == IF mode = "LIVE" THEN LIVE_MAX_EPISODE_FRAMES ELSE HTTP_MAX_EPISODE_FRAMES

(***************************************************************************)
(* Initial state: the detector after __init__.                             *)
(***************************************************************************)
SessionInit ==
    /\ active_frames = <<>>
    /\ detections_summary = EmptySummary
    /\ silence_counter = 0
    /\ episode_start_time = <<>>
    /\ episode_count = 0
    /\ consecutive_failures = 0
    /\ hist = <<>>
    /\ flushed = <<>>
    /\ failrun = 0

\* nothing of the fresh-frame buffer exists before FreshFrame.__init__
FFInit ==
    /\ ff_cap = "unset"
    /\ ff_frame = 0
    /\ ff_success = FALSE
    /\ ff_running = FALSE
    /\ ff_lock = "free"
    /\ rd_pc = "unborn"
    /\ rd_success = FALSE
    /\ rd_frame = 0
    /\ wk_pc = "setup"
    /\ wk_success = FALSE
    /\ wk_frame = 0
    /\ rl_pc = "idle"
    /\ uploaded = {}
    /\ published = <<>>
    /\ heartbeat = FALSE
    /\ src_next = 1
    /\ written = {}
    /\ wk_reads = 0
    /\ completed = 0
    /\ wk_latest = 0

\* the locals of a session loop at its entry (lines 337-345 and 522-529),
\* with no call made yet and no frame read
RunInit ==
    [frame_count |-> 0, active_frames |-> <<>>,
     detections_summary |-> EmptySummary, silence_counter |-> 0,
     episode_start_time |-> <<>>, episode_count |-> 0,
     consecutive_failures |-> 0, nproc |-> 0, sent |-> <<>>, posted |-> <<>>,
     calls |-> <<>>, hist |-> <<>>, last_result |-> "none", over |-> FALSE]

PairIdle == runA = RunInit /\ runB = RunInit

\* the delivery log is empty, the alert gate has fired nothing (line 119)
\* and no heartbeat thread exists (line 125)
SvcIdle ==
    /\ dl_log = <<>>
    /\ dl_results = <<>>
    /\ last_alert_time = 0
    /\ alerts = <<>>
    /\ al_calls = <<>>
    /\ hb_pc = "unborn"
    /\ marker = FALSE

\* the detector after __init__, whatever its configuration
Constructed ==
    /\ FFInit
    /\ SvcIdle
    /\ PairIdle
    /\ now = StartTime
    /\ mode \in ModeArgs
    /\ pc = "start"
    /\ running = TRUE
    /\ cap = "None"
    /\ http_session = FALSE
    /\ frame_count = 0
    /\ SessionInit
    /\ reconnect_count = 0
    /\ sent = <<>>
    /\ posted = <<>>
    /\ exited = "no"
    /\ buffered = <<>>
    /\ nproc = 0
    /\ sessions = 0
    /\ polls = 0
    /\ allfail = TRUE

\* a detector started with --redis-host and --endpoint and the alert module
\* imported (TELEGRAM_ENABLED, line 42)
Init ==
    /\ Constructed
    /\ redis_client = TRUE
    /\ endpoint = TRUE
    /\ telegram_enabled = TRUE

\* the locals of a loop function, at its entry and (dead) after its exit
ResetSession ==
    /\ active_frames' = <<>>
    /\ detections_summary' = EmptySummary
    /\ silence_counter' = 0
    /\ episode_start_time' = <<>>
    /\ episode_count' = 0
    /\ consecutive_failures' = 0
    /\ hist' = <<>>
    /\ flushed' = <<>>
    /\ failrun' = 0

sessionVars == <<active_frames, detections_summary, silence_counter,
                 episode_start_time, episode_count, consecutive_failures,
                 hist, flushed, failrun>>

(***************************************************************************)
(* The episode segmenter: lines 373-449 (LIVE) and 553-626 (HTTP), the     *)
(* same code twice.  dets is the result of _detect_frame for the frame     *)
(* numbered fc.                                                            *)
(***************************************************************************)
\* lines 373-425 without the reset of the buffer after a cap flush
SegmentActivityKeepsBuffer(dets, fc) ==
    LET frames1 == Append(active_frames, FrameRecord(active_frames, dets, fc))
        summary1 == MergeSummary(detections_summary, dets)
    IN  /\ silence_counter' = 0
        /\ posted' = Append(posted, EpisodeData(dets, fc))
        /\ buffered' = Append(buffered, fc)
        /\ IF CapReached(Len(frames1), MaxEpisodeFrames)
           THEN /\ sent' = SendEpisode(sent, frames1, summary1, "cap")
                /\ flushed' = flushed \o FrameNumbers(frames1)
                /\ episode_count' = episode_count + 1
                /\ active_frames' = frames1
                /\ detections_summary' = summary1
                /\ episode_start_time' = <<fc>>
           ELSE /\ sent' = sent
                /\ flushed' = flushed
                /\ episode_count' = episode_count
                /\ active_frames' = frames1
                /\ detections_summary' = summary1
                /\ episode_start_time' =
                      IF episode_start_time = <<>> THEN <<fc>> ELSE episode_start_time

\* lines 373-425 with the cap flush made before the frame is appended
SegmentActivityDropsTrigger(dets, fc) ==
    LET frames1 == Append(active_frames, FrameRecord(active_frames, dets, fc))
        summary1 == MergeSummary(detections_summary, dets)
    IN  /\ silence_counter' = 0
        /\ posted' = Append(posted, EpisodeData(dets, fc))
        /\ buffered' = Append(buffered, fc)
        /\ IF CapReached(Len(frames1), MaxEpisodeFrames)
           THEN /\ sent' = SendEpisode(sent, active_frames, detections_summary, "cap")
                /\ flushed' = flushed \o FrameNumbers(active_frames)
                /\ episode_count' = episode_count + 1
                /\ active_frames' = <<>>
                /\ detections_summary' = EmptySummary
                /\ episode_start_time' = <<fc>>
           ELSE /\ sent' = sent
                /\ flushed' = flushed
                /\ episode_count' = episode_count
                /\ active_frames' = frames1
                /\ detections_summary' = summary1
                /\ episode_start_time' =
                      IF episode_start_time = <<>> THEN <<fc>> ELSE episode_start_time

\* lines 373-425 / 553-604: a frame with detections
SegmentActivity(dets, fc) ==
    LET frames1 == Append(active_frames, FrameRecord(active_frames, dets, fc))
        summary1 == MergeSummary(detections_summary, dets)
    IN  /\ silence_counter' = 0
        /\ posted' = Append(posted, EpisodeData(dets, fc))
        /\ buffered' = Append(buffered, fc)
        /\ IF CapReached(Len(frames1), MaxEpisodeFrames)
           THEN /\ sent' = SendEpisode(sent, frames1, summary1, "cap")
                /\ flushed' = flushed \o FrameNumbers(frames1)
                /\ episode_count' = episode_count + 1
                /\ active_frames' = <<>>
                /\ detections_summary' = EmptySummary
                /\ episode_start_time' = <<fc>>
           ELSE /\ sent' = sent
                /\ flushed' = flushed
                /\ episode_count' = episode_count
                /\ active_frames' = frames1
                /\ detections_summary' = summary1
                /\ episode_start_time' =
                      IF episode_start_time = <<>> THEN <<fc>> ELSE episode_start_time

\* lines 427-449 / 606-626: a frame without detections
SegmentSilence ==
    /\ UNCHANGED <<posted, buffered>>
    /\ IF SilenceElapsed(silence_counter + 1, SilenceThreshold, active_frames)
       THEN /\ sent' = SendEpisode(sent, active_frames, detections_summary, "silence")
            /\ flushed' = flushed \o FrameNumbers(active_frames)
            /\ episode_count' = episode_count + 1
            /\ active_frames' = <<>>
            /\ detections_summary' = EmptySummary
            /\ episode_start_time' = <<>>
            /\ silence_counter' = 0
       ELSE /\ silence_counter' = silence_counter + 1
            /\ UNCHANGED <<sent, flushed, episode_count, active_frames,
                           detections_summary, episode_start_time>>

Segment(dets, fc) ==
    /\ IF dets # <<>> THEN SegmentActivity(dets, fc) ELSE SegmentSilence
    /\ hist' = Append(hist, [fn |-> fc, act |-> dets # <<>>])
    /\ nproc' = nproc + 1

(***************************************************************************)
(* The same session loop as a function of its locals st, of the result rd  *)
(* of one read with the detections of the frame, and of the result res of  *)
(* the delivery calls made in the iteration.  _post_detection returns      *)
(* nothing and the value of _send_episode is dropped at each call site.    *)
(***************************************************************************)
MaxFailures == IF mode = "LIVE" THEN LIVE_MAX_FAILURES ELSE HTTP_MAX_FAILURES

\* lines 362-364; the polling loop processes every snapshot
RunSkips(fc) == mode = "LIVE" /\ SkippedFrame(fc, LIVE_FRAME_SKIP)

\* the calls of _post_detection and _send_episode, in the order made
PostCall(fc) == [op |-> "post", frames |-> <<fc>>]
SendCall(frames) == [op |-> "send", frames |-> FrameNumbers(frames)]
SendCallIfAny(c, frames) == IF frames # <<>> THEN Append(c, SendCall(frames)) ELSE c

\* lines 373-425 with _post_detection called after the cap flush
RunActivityPostsLate(st, dets, res) ==
    LET fc == st.frame_count
        frames1 == Append(st.active_frames, FrameRecord(st.active_frames, dets, fc))
        summary1 == MergeSummary(st.detections_summary, dets)
        st1 == [st EXCEPT !.silence_counter = 0,
                          !.posted = Append(@, EpisodeData(dets, fc)),
                          !.last_result = res]
    IN  IF CapReached(Len(frames1), MaxEpisodeFrames)
        THEN [st1 EXCEPT !.sent = SendEpisode(@, frames1, summary1, "cap"),
                         !.calls = Append(Append(@, SendCall(frames1)), PostCall(fc)),
                         !.episode_count = @ + 1,
                         !.active_frames = <<>>,
                         !.detections_summary = EmptySummary,
                         !.episode_start_time = <<fc>>]
        ELSE [st1 EXCEPT !.calls = Append(@, PostCall(fc)),
                         !.active_frames = frames1,
                         !.detections_summary = summary1,
                         !.episode_start_time = IF @ = <<>> THEN <<fc>> ELSE @]

\* lines 373-425 / 553-604
RunActivity(st, dets, res) ==
    LET fc == st.frame_count
        frames1 == Append(st.active_frames, FrameRecord(st.active_frames, dets, fc))
        summary1 == MergeSummary(st.detections_summary, dets)
        st1 == [st EXCEPT !.silence_counter = 0,
                          !.posted = Append(@, EpisodeData(dets, fc)),
                          !.calls = Append(@, PostCall(fc)),
                          !.last_result = res]
    IN  IF CapReached(Len(frames1), MaxEpisodeFrames)
        THEN [st1 EXCEPT !.sent = SendEpisode(@, frames1, summary1, "cap"),
                         !.calls = Append(@, SendCall(frames1)),
                         !.episode_count = @ + 1,
                         !.active_frames = <<>>,
                         !.detections_summary = EmptySummary,
                         !.episode_start_time = <<fc>>]
        ELSE [st1 EXCEPT !.active_frames = frames1,
                         !.detections_summary = summary1,
                         !.episode_start_time = IF @ = <<>> THEN <<fc>> ELSE @]

\* the silence branch keeping the episode when its delivery failed
RunSilenceRetries(st, res) ==
    IF SilenceElapsed(st.silence_counter + 1, SilenceThreshold, st.active_frames)
    THEN IF res = "ok"
         THEN [st EXCEPT !.sent = SendEpisode(@, st.active_frames,
                                              st.detections_summary, "silence"),
                         !.calls = Append(@, SendCall(st.active_frames)),
                         !.episode_count = @ + 1,
                         !.active_frames = <<>>,
                         !.detections_summary = EmptySummary,
                         !.episode_start_time = <<>>,
                         !.silence_counter = 0,
                         !.last_result = res]
         ELSE [st EXCEPT !.sent = SendEpisode(@, st.active_frames,
                                              st.detections_summary, "silence"),
                         !.calls = Append(@, SendCall(st.active_frames)),
                         !.silence_counter = @ + 1,
                         !.last_result = res]
    ELSE [st EXCEPT !.silence_counter = @ + 1]

\* lines 427-449 / 606-626
RunSilence(st, res) ==
    IF SilenceElapsed(st.silence_counter + 1, SilenceThreshold, st.active_frames)
    THEN [st EXCEPT !.sent = SendEpisode(@, st.active_frames,
                                         st.detections_summary, "silence"),
                    !.calls = Append(@, SendCall(st.active_frames)),
                    !.episode_count = @ + 1,
                    !.active_frames = <<>>,
                    !.detections_summary = EmptySummary,
                    !.episode_start_time = <<>>,
                    !.silence_counter = 0,
                    !.last_result = res]
    ELSE [st EXCEPT !.silence_counter = @ + 1]

\* one iteration of the while loop: lines 352-449 / 532-626
LoopStep(st, rd, res) ==
    IF ~rd.ret
    THEN [st EXCEPT !.consecutive_failures = @ + 1]
    ELSE LET st1 == [st EXCEPT !.consecutive_failures = 0, !.frame_count = @ + 1]
             st2 == [st1 EXCEPT !.nproc = @ + 1,
                                !.hist = Append(@, [fn |-> st1.frame_count,
                                                    act |-> rd.dets # <<>>])]
         IN  IF RunSkips(st1.frame_count) THEN st1
             ELSE IF rd.dets # <<>> THEN RunActivity(st2, rd.dets, res)
                  ELSE RunSilence(st2, res)

\* the loop is left on the failure ceiling: lines 451-467 / 638-648
RunExit(st, res) ==
    LET sent1 == IF mode = "LIVE"
                 THEN SendIfAny(st.sent, st.active_frames,
                                st.detections_summary, "ceiling")
                 ELSE st.sent
        calls1 == IF mode = "LIVE" THEN SendCallIfAny(st.calls, st.active_frames)
                  ELSE st.calls
    IN  [st EXCEPT !.sent = SendIfAny(sent1, st.active_frames,
                                      st.detections_summary, "final"),
                   !.calls = SendCallIfAny(calls1, st.active_frames),
                   !.last_result = IF st.active_frames # <<>> THEN res ELSE @,
                   !.over = TRUE]

\* the loop test of lines 351 / 531 with self.running set
RunNext(st, rd, res) ==
    IF CeilingReached(st.consecutive_failures, MaxFailures)
    THEN RunExit(st, res)
    ELSE LoopStep(st, rd, res)

(***************************************************************************)
(* start() and _cleanup().                                                 *)
(***************************************************************************)
Start ==
    /\ pc = "start"
    \* _start_heartbeat_thread, lines 1081-1083 and 1109-1110
    /\ hb_pc' = IF redis_client THEN "loop" ELSE "nothread"
    /\ IF mode \in Modes
       THEN /\ pc' = CASE mode = "UPLOAD" -> "file_open"
                      [] mode = "LIVE" -> "run_loop"
                      [] mode = "HTTP" -> "http_loop"
            /\ UNCHANGED <<running, exited>>
       \* lines 177-182: ValueError leaves start() through _cleanup
       ELSE /\ pc' = "done"
            /\ running' = FALSE
            /\ exited' = "raised"
    /\ UNCHANGED <<pairVars, dlVars, alVars, marker, ffVars, mode, cap, http_session,
                   frame_count, sessionVars,
                   reconnect_count, sent, posted, buffered, nproc,
                   sessions, polls, allfail>>

Cleanup ==
    /\ pc = "cleanup"
    /\ running' = FALSE
    /\ cap' = "None"
    /\ pc' = "done"
    /\ exited' = "returned"
    /\ UNCHANGED <<svcVars, ffVars, mode, http_session, frame_count,
                   sessionVars, reconnect_count,
                   sent, posted, buffered, nproc, sessions, polls, allfail>>

(***************************************************************************)
(* LIVE mode: _run_stream_loop, _connect_stream, _process_stream.          *)
(***************************************************************************)
LiveRunLoop ==
    /\ pc = "run_loop"
    /\ pc' = IF running THEN "connect" ELSE "cleanup"
    /\ UNCHANGED <<svcVars, ffVars, mode, running, cap, http_session,
                   frame_count, sessionVars,
                   reconnect_count, sent, posted, exited, buffered, nproc,
                   sessions, polls, allfail>>

LiveConnect ==
    /\ pc = "connect"
    /\ \E opened \in BOOLEAN :
          IF opened
          THEN /\ cap' = "open"
               /\ pc' = "stream"
          ELSE /\ cap' = "closed"
               /\ pc' = "stream_error"
    /\ ResetSession
    /\ UNCHANGED <<svcVars, ffVars, mode, running, http_session, frame_count,
                   reconnect_count,
                   sent, posted, exited, buffered, nproc, sessions, polls, allfail>>

LiveStreamError ==
    /\ pc = "stream_error"
    /\ pc' = IF running THEN "reconnect_wait" ELSE "run_loop"
    /\ UNCHANGED <<svcVars, ffVars, mode, running, cap, http_session,
                   frame_count, sessionVars,
                   reconnect_count, sent, posted, exited, buffered, nproc,
                   sessions, polls, allfail>>

LiveWait ==
    /\ pc = "reconnect_wait"
    /\ pc' = "run_loop"
    /\ UNCHANGED <<svcVars, ffVars, mode, running, cap, http_session,
                   frame_count, sessionVars,
                   reconnect_count, sent, posted, exited, buffered, nproc,
                   sessions, polls, allfail>>

\* the loop test of _process_stream without self.running
LiveLoopCondIgnoresFlag == ~CeilingReached(consecutive_failures, LIVE_MAX_FAILURES)

\* line 351: while self.running and consecutive_failures < max_failures
LiveLoopCond == running /\ ~CeilingReached(consecutive_failures, LIVE_MAX_FAILURES)

LiveReadFail ==
    /\ pc = "stream" /\ LiveLoopCond
    /\ consecutive_failures' = consecutive_failures + 1
    /\ failrun' = failrun + 1
    /\ UNCHANGED <<svcVars, ffVars, mode, pc, running, cap, http_session,
                   frame_count, active_frames,
                   detections_summary, silence_counter, episode_start_time,
                   episode_count, reconnect_count, sent, posted, exited, hist,
                   flushed, buffered, nproc, sessions, polls, allfail>>

\* lines 359-364 with the reset of the counter placed after the skip test
LiveReadSkipKeepsCount ==
    /\ pc = "stream" /\ LiveLoopCond
    /\ SkippedFrame(frame_count + 1, LIVE_FRAME_SKIP)
    /\ failrun' = 0
    /\ frame_count' = frame_count + 1
    /\ allfail' = FALSE
    /\ UNCHANGED <<svcVars, ffVars, mode, pc, running, cap, http_session,
                   active_frames, consecutive_failures,
                   detections_summary, silence_counter, episode_start_time,
                   episode_count, reconnect_count, sent, posted, exited, hist,
                   flushed, buffered, nproc, sessions, polls>>

LiveReadSkip ==
    /\ pc = "stream" /\ LiveLoopCond
    /\ SkippedFrame(frame_count + 1, LIVE_FRAME_SKIP)
    /\ consecutive_failures' = 0
    /\ failrun' = 0
    /\ frame_count' = frame_count + 1
    /\ allfail' = FALSE
    /\ UNCHANGED <<svcVars, ffVars, mode, pc, running, cap, http_session,
                   active_frames,
                   detections_summary, silence_counter, episode_start_time,
                   episode_count, reconnect_count, sent, posted, exited, hist,
                   flushed, buffered, nproc, sessions, polls>>

LiveReadDetect ==
    /\ pc = "stream" /\ LiveLoopCond
    /\ ~SkippedFrame(frame_count + 1, LIVE_FRAME_SKIP)
    /\ nproc < MaxProcessed
    /\ consecutive_failures' = 0
    /\ failrun' = 0
    /\ frame_count' = frame_count + 1
    /\ allfail' = FALSE
    /\ \E dets \in Batches : Segment(dets, frame_count + 1)
    /\ UNCHANGED <<svcVars, ffVars, mode, pc, running, cap, http_session,
                   reconnect_count, exited,
                   sessions, polls>>

\* _detect_frame raises: the exception leaves _process_stream through its
\* finally block (lines 461-467) and is caught at line 293
LiveDetectError ==
    /\ pc = "stream" /\ LiveLoopCond
    /\ ~SkippedFrame(frame_count + 1, LIVE_FRAME_SKIP)
    /\ nproc < MaxProcessed
    /\ frame_count' = frame_count + 1
    /\ allfail' = FALSE
    /\ nproc' = nproc + 1
    /\ sent' = SendIfAny(sent, active_frames, detections_summary, "final")
    /\ ResetSession
    /\ pc' = "stream_error"
    /\ UNCHANGED <<svcVars, ffVars, mode, running, cap, http_session,
                   reconnect_count, posted,
                   exited, buffered, sessions, polls>>

\* the loop condition of line 351 is false: lines 451-471
LiveExit ==
    /\ pc = "stream" /\ ~LiveLoopCond
    /\ IF CeilingReached(consecutive_failures, LIVE_MAX_FAILURES)
       THEN /\ sent' = SendIfAny(
                          SendIfAny(sent, active_frames, detections_summary, "ceiling"),
                          active_frames, detections_summary, "final")
            /\ pc' = "stream_error"
       ELSE /\ sent' = SendIfAny(sent, active_frames, detections_summary, "final")
            /\ pc' = "run_loop"
    /\ ResetSession
    /\ UNCHANGED <<svcVars, ffVars, mode, running, cap, http_session,
                   frame_count, reconnect_count,
                   posted, exited, buffered, nproc, sessions, polls, allfail>>

(***************************************************************************)
(* HTTP mode: _run_http_loop, _http_polling_session, _fetch_http_snapshot. *)
(***************************************************************************)
HttpRunLoop ==
    /\ pc = "http_loop"
    /\ IF running /\ ReconnectsLeft(reconnect_count, MAX_RECONNECTS)
       THEN /\ http_session' = TRUE
            /\ sessions' = sessions + 1
            /\ pc' = "poll"
       ELSE /\ pc' = "cleanup"
            /\ UNCHANGED <<http_session, sessions>>
    /\ ResetSession
    /\ UNCHANGED <<svcVars, ffVars, mode, running, cap, frame_count,
                   reconnect_count, sent, posted,
                   exited, buffered, nproc, polls, allfail>>

HttpLoopCond == running /\ ~CeilingReached(consecutive_failures, HTTP_MAX_FAILURES)

\* _fetch_http_snapshot returns None
HttpPollFail ==
    /\ pc = "poll" /\ HttpLoopCond
    /\ consecutive_failures' = consecutive_failures + 1
    /\ failrun' = failrun + 1
    /\ polls' = polls + 1
    /\ UNCHANGED <<svcVars, ffVars, mode, pc, running, cap, http_session,
                   frame_count, active_frames,
                   detections_summary, silence_counter, episode_start_time,
                   episode_count, reconnect_count, sent, posted, exited, hist,
                   flushed, buffered, nproc, sessions, allfail>>

HttpPollDetect ==
    /\ pc = "poll" /\ HttpLoopCond
    /\ http_session
    /\ nproc < MaxProcessed
    /\ consecutive_failures' = 0
    /\ failrun' = 0
    /\ frame_count' = frame_count + 1
    /\ polls' = polls + 1
    /\ allfail' = FALSE
    /\ \E dets \in Batches : Segment(dets, frame_count + 1)
    /\ UNCHANGED <<svcVars, ffVars, mode, pc, running, cap, http_session,
                   reconnect_count, exited,
                   sessions>>

\* _detect_frame raises: caught by the handler of lines 628-630
HttpDetectError ==
    /\ pc = "poll" /\ HttpLoopCond
    /\ http_session
    /\ nproc < MaxProcessed
    /\ consecutive_failures' = 1
    /\ failrun' = 0
    /\ frame_count' = frame_count + 1
    /\ polls' = polls + 1
    /\ allfail' = FALSE
    /\ nproc' = nproc + 1
    /\ UNCHANGED <<svcVars, ffVars, mode, pc, running, cap, http_session,
                   active_frames,
                   detections_summary, silence_counter, episode_start_time,
                   episode_count, reconnect_count, sent, posted, exited, hist,
                   flushed, buffered, sessions>>

\* the loop condition of line 531 is false: lines 638-656, then lines 492-503
HttpExit ==
    /\ pc = "poll" /\ ~HttpLoopCond
    /\ sent' = SendIfAny(sent, active_frames, detections_summary, "final")
    /\ http_session' = FALSE
    /\ IF CeilingReached(consecutive_failures, HTTP_MAX_FAILURES)
       THEN /\ reconnect_count' = reconnect_count + 1
            /\ pc' = "http_wait"
       ELSE /\ reconnect_count' = reconnect_count
            /\ pc' = "http_loop"
    /\ ResetSession
    /\ UNCHANGED <<svcVars, ffVars, mode, running, cap, frame_count, posted,
                   exited, buffered,
                   nproc, sessions, polls, allfail>>

HttpWait ==
    /\ pc = "http_wait"
    /\ pc' = "http_loop"
    /\ UNCHANGED <<svcVars, ffVars, mode, running, cap, http_session,
                   frame_count, sessionVars,
                   reconnect_count, sent, posted, exited, buffered, nproc,
                   sessions, polls, allfail>>

(***************************************************************************)
(* UPLOAD mode: _run_file_loop.                                            *)
(***************************************************************************)
\* an exception leaves _run_file_loop (finally, lines 275-279) and start()
\* (finally, line 182)
FileRaise ==
    /\ cap' = "None"
    /\ running' = FALSE
    /\ pc' = "done"
    /\ exited' = "raised"
    /\ ResetSession

FileOpen ==
    /\ pc = "file_open"
    /\ \E opened \in BOOLEAN :
          IF opened
          THEN /\ cap' = "open"
               /\ pc' = "file_loop"
               /\ ResetSession
               /\ UNCHANGED <<running, exited>>
          ELSE FileRaise
    /\ UNCHANGED <<svcVars, ffVars, mode, http_session, frame_count,
                   reconnect_count, sent, posted,
                   buffered, nproc, sessions, polls, allfail>>

FileReadSkip ==
    /\ pc = "file_loop" /\ running
    /\ SkippedFrame(frame_count + 1, FILE_FRAME_SKIP)
    /\ frame_count' = frame_count + 1
    /\ allfail' = FALSE
    /\ UNCHANGED <<svcVars, ffVars, mode, pc, running, cap, http_session,
                   sessionVars,
                   reconnect_count, sent, posted, exited, buffered, nproc,
                   sessions, polls>>

FileReadDetect ==
    /\ pc = "file_loop" /\ running
    /\ ~SkippedFrame(frame_count + 1, FILE_FRAME_SKIP)
    /\ nproc < MaxProcessed
    /\ frame_count' = frame_count + 1
    /\ allfail' = FALSE
    /\ nproc' = nproc + 1
    /\ \E dets \in Batches :
          /\ hist' = Append(hist, [fn |-> frame_count + 1, act |-> dets # <<>>])
          /\ IF dets # <<>>
             THEN /\ posted' = Append(posted, EpisodeData(dets, frame_count + 1))
                  /\ buffered' = Append(buffered, frame_count + 1)
                  /\ active_frames' =
                        Append(active_frames,
                               FrameRecord(active_frames, dets, frame_count + 1))
                  /\ detections_summary' = MergeSummary(detections_summary, dets)
             ELSE UNCHANGED <<posted, buffered, active_frames, detections_summary>>
    /\ UNCHANGED <<svcVars, ffVars, mode, pc, running, cap, http_session,
                   silence_counter,
                   episode_start_time, episode_count, consecutive_failures,
                   flushed, failrun, reconnect_count, sent, exited, sessions, polls>>

FileDetectError ==
    /\ pc = "file_loop" /\ running
    /\ ~SkippedFrame(frame_count + 1, FILE_FRAME_SKIP)
    /\ nproc < MaxProcessed
    /\ frame_count' = frame_count + 1
    /\ allfail' = FALSE
    /\ nproc' = nproc + 1
    /\ FileRaise
    /\ UNCHANGED <<svcVars, ffVars, mode, http_session, reconnect_count, sent,
                   posted, buffered,
                   sessions, polls>>

\* _run_file_loop raising on a failed read instead of breaking
FileEndRaises ==
    /\ pc = "file_loop"
    /\ sent' = SendIfAny(sent, active_frames, detections_summary, "eof")
    /\ FileRaise
    /\ UNCHANGED <<svcVars, ffVars, mode, http_session, frame_count,
                   reconnect_count,
                   posted, buffered, nproc, sessions, polls, allfail>>

\* the read fails (end of file) or self.running is false: lines 258-279
FileEnd ==
    /\ pc = "file_loop"
    /\ sent' = SendIfAny(sent, active_frames, detections_summary, "eof")
    /\ cap' = "None"
    /\ pc' = "cleanup"
    /\ ResetSession
    /\ UNCHANGED <<svcVars, ffVars, mode, running, http_session, frame_count,
                   reconnect_count,
                   posted, exited, buffered, nproc, sessions, polls, allfail>>

(***************************************************************************)
(* stop() from another thread, and _handle_signal in the main thread.      *)
(***************************************************************************)
Stop ==
    /\ exited = "no" /\ running
    /\ running' = FALSE
    /\ UNCHANGED <<svcVars, ffVars, mode, pc, cap, http_session, frame_count,
                   sessionVars,
                   reconnect_count, sent, posted, exited, buffered, nproc,
                   sessions, polls, allfail>>

\* _handle_signal ends with sys.exit(0): SystemExit unwinds the main thread
\* from where it was, through the finally blocks that enclose that place
\* (lines 461-467, 642-652, 275-279, 182); no handler catches it.
HandleSignal ==
    /\ exited = "no"
    /\ running' = FALSE
    /\ cap' = "None"
    /\ sent' = IF pc \in {"stream", "poll"}
               THEN SendIfAny(sent, active_frames, detections_summary, "final")
               ELSE sent
    /\ http_session' = IF pc = "poll" THEN FALSE ELSE http_session
    /\ ResetSession
    /\ pc' = "done"
    /\ exited' = "sysexit"
    /\ UNCHANGED <<svcVars, ffVars, mode, frame_count, reconnect_count,
                   posted, buffered, nproc,
                   sessions, polls, allfail>>

MainNext ==
    \/ Start
    \/ Cleanup
    \/ LiveRunLoop
    \/ LiveConnect
    \/ LiveStreamError
    \/ LiveWait
    \/ LiveReadFail
    \/ LiveReadSkip
    \/ LiveReadDetect
    \/ LiveDetectError
    \/ LiveExit
    \/ HttpRunLoop
    \/ HttpPollFail
    \/ HttpPollDetect
    \/ HttpDetectError
    \/ HttpExit
    \/ HttpWait
    \/ FileOpen
    \/ FileReadSkip
    \/ FileReadDetect
    \/ FileDetectError
    \/ FileEnd

Next ==
    \/ MainNext
    \/ Stop
    \/ HandleSignal

Spec == Init /\ [][Next]_vars

(***************************************************************************)
(* One detector in LIVE mode and one in HTTP mode.  The main thread is a   *)
(* thread of the operating system and every call it makes returns          *)
(* (time.sleep, cap.read with its timeout, requests with timeout=), so it  *)
(* takes its next step whenever it has one.                                *)
(***************************************************************************)
LiveMain ==
    \/ Start
    \/ Cleanup
    \/ LiveRunLoop
    \/ LiveConnect
    \/ LiveStreamError
    \/ LiveWait
    \/ LiveReadFail
    \/ LiveReadSkip
    \/ LiveReadDetect
    \/ LiveDetectError
    \/ LiveExit

LiveNext ==
    \/ LiveMain
    \/ Stop
    \/ HandleSignal

LiveInit == Init /\ mode = "LIVE"

LiveSpec == LiveInit /\ [][LiveNext]_vars /\ WF_vars(LiveMain)

HttpMain ==
    \/ Start
    \/ Cleanup
    \/ HttpRunLoop
    \/ HttpPollFail
    \/ HttpPollDetect
    \/ HttpDetectError
    \/ HttpExit
    \/ HttpWait

HttpNext ==
    \/ HttpMain
    \/ Stop
    \/ HandleSignal

HttpInit == Init /\ mode = "HTTP"

HttpSpec == HttpInit /\ [][HttpNext]_vars /\ WF_vars(HttpMain)

(***************************************************************************)
(* The fresh-frame buffer: class FreshFrame of backend/vision_worker_v3.py *)
(* (the same class is in backend-analysis/vision_worker_v3.py and in       *)
(* SecureWatch3_SteelThread_P1/vision_worker.py), and run_worker, which    *)
(* consumes it.                                                            *)
(***************************************************************************)
\* entering "with self.lock" without waiting for the lock
LockIgnored(holder) == TRUE

\* "with self.lock" can be entered
LockAvailable(holder) == holder = "free"

\* run_worker up to "cap = FreshFrame(rtsp_url)": the bucket check of lines
\* 76-81 and FreshFrame.__init__ (lines 26-40)
WkSetup ==
    /\ wk_pc = "setup"
    /\ \E bucket_ok \in BOOLEAN, opened \in BOOLEAN :
          IF ~bucket_ok
          THEN /\ wk_pc' = "returned"
               /\ UNCHANGED <<ff_cap, ff_running, rd_pc>>
          ELSE /\ ff_cap' = IF opened THEN "open" ELSE "closed"
               /\ ff_running' = TRUE
               /\ rd_pc' = IF opened THEN "loop" ELSE "nothread"
               /\ wk_pc' = "read"
    /\ UNCHANGED <<svcVars, engineVars, completed, wk_latest, ff_frame,
                   ff_success, ff_lock, rd_success, rd_frame,
                   wk_success, wk_frame, rl_pc, uploaded, published, heartbeat,
                   src_next, written, wk_reads>>

\* _reader, line 43: while self.running
RdLoop ==
    /\ rd_pc = "loop"
    /\ rd_pc' = IF ff_running THEN "read" ELSE "ended"
    /\ UNCHANGED <<svcVars, engineVars, completed, wk_latest, ff_cap,
                   ff_frame, ff_success, ff_running, ff_lock,
                   rd_success, rd_frame, wk_pc, wk_success, wk_frame, rl_pc,
                   uploaded, published, heartbeat, src_next, written, wk_reads>>

\* a _reader that stores the result of a failed read as well
RdReadStoresFailure ==
    /\ rd_pc = "read"
    /\ \E ok \in BOOLEAN :
          IF ok /\ ff_cap = "open" /\ src_next <= MaxSrc
          THEN /\ rd_success' = TRUE
               /\ rd_frame' = src_next
               /\ src_next' = src_next + 1
          ELSE /\ rd_success' = FALSE
               /\ rd_frame' = 0
               /\ src_next' = src_next
    /\ rd_pc' = "lock"
    /\ UNCHANGED <<svcVars, engineVars, completed, wk_latest, ff_cap,
                   ff_frame, ff_success, ff_running, ff_lock,
                   wk_pc, wk_success, wk_frame, rl_pc, uploaded, published,
                   heartbeat, written, wk_reads>>

\* _reader, lines 44-47: self.cap.read() and the branch on its result
RdRead ==
    /\ rd_pc = "read"
    /\ \E ok \in BOOLEAN :
          IF ok /\ ff_cap = "open" /\ src_next <= MaxSrc
          THEN /\ rd_success' = TRUE
               /\ rd_frame' = src_next
               /\ src_next' = src_next + 1
               /\ rd_pc' = "lock"
          ELSE /\ rd_success' = FALSE
               /\ rd_frame' = 0
               /\ src_next' = src_next
               /\ rd_pc' = "sleep"
    /\ UNCHANGED <<svcVars, engineVars, completed, wk_latest, ff_cap,
                   ff_frame, ff_success, ff_running, ff_lock,
                   wk_pc, wk_success, wk_frame, rl_pc, uploaded, published,
                   heartbeat, written, wk_reads>>

\* _reader, line 46: time.sleep(1); continue
RdSleep ==
    /\ rd_pc = "sleep"
    /\ rd_pc' = "loop"
    /\ UNCHANGED <<svcVars, engineVars, completed, wk_latest, ff_cap,
                   ff_frame, ff_success, ff_running, ff_lock,
                   rd_success, rd_frame, wk_pc, wk_success, wk_frame, rl_pc,
                   uploaded, published, heartbeat, src_next, written, wk_reads>>

\* _reader, line 48: with self.lock
RdAcquire ==
    /\ rd_pc = "lock"
    /\ LockAvailable(ff_lock)
    /\ ff_lock' = "reader"
    /\ written' = written \cup {<<rd_success, rd_frame>>}
    /\ rd_pc' = "write_frame"
    /\ UNCHANGED <<svcVars, engineVars, completed, wk_latest, ff_cap,
                   ff_frame, ff_success, ff_running, rd_success,
                   rd_frame, wk_pc, wk_success, wk_frame, rl_pc, uploaded,
                   published, heartbeat, src_next, wk_reads>>

\* _reader, line 49: self.frame = frame
RdWriteFrame ==
    /\ rd_pc = "write_frame"
    /\ ff_frame' = rd_frame
    /\ rd_pc' = "write_success"
    /\ UNCHANGED <<svcVars, engineVars, completed, wk_latest, ff_cap,
                   ff_success, ff_running, ff_lock, rd_success,
                   rd_frame, wk_pc, wk_success, wk_frame, rl_pc, uploaded,
                   published, heartbeat, src_next, written, wk_reads>>

\* _reader, line 50: self.success = success, and the lock is given back
RdWriteSuccess ==
    /\ rd_pc = "write_success"
    /\ ff_success' = rd_success
    /\ ff_lock' = "free"
    /\ completed' = rd_frame
    /\ rd_pc' = "loop"
    /\ UNCHANGED <<svcVars, engineVars, wk_latest, ff_cap, ff_frame,
                   ff_running, rd_success, rd_frame,
                   wk_pc, wk_success, wk_frame, rl_pc, uploaded, published,
                   heartbeat, src_next, written, wk_reads>>

\* read, line 53: with self.lock
WkAcquire ==
    /\ wk_pc = "read"
    /\ wk_reads < MaxWorkerReads \/ ff_frame = 0
    /\ LockAvailable(ff_lock)
    /\ ff_lock' = "worker"
    /\ wk_reads' = IF wk_reads < MaxWorkerReads THEN wk_reads + 1 ELSE wk_reads
    /\ wk_latest' = completed
    /\ wk_pc' = "load_success"
    /\ UNCHANGED <<svcVars, engineVars, completed, ff_cap, ff_frame,
                   ff_success, ff_running, rd_pc,
                   rd_success, rd_frame, wk_success, wk_frame, rl_pc, uploaded,
                   published, heartbeat, src_next, written>>

\* read, line 54: the first element of the returned pair
WkLoadSuccess ==
    /\ wk_pc = "load_success"
    /\ wk_success' = ff_success
    /\ wk_pc' = "load_frame"
    /\ UNCHANGED <<svcVars, engineVars, completed, wk_latest, ff_cap,
                   ff_frame, ff_success, ff_running, ff_lock,
                   rd_pc, rd_success, rd_frame, wk_frame, rl_pc, uploaded,
                   published, heartbeat, src_next, written, wk_reads>>

\* read, line 54: the second element; the pair is returned and the lock
\* given back
WkLoadFrame ==
    /\ wk_pc = "load_frame"
    /\ wk_frame' = ff_frame
    /\ ff_lock' = "free"
    /\ wk_pc' = "check"
    /\ UNCHANGED <<svcVars, engineVars, completed, wk_latest, ff_cap,
                   ff_frame, ff_success, ff_running, rd_pc,
                   rd_success, rd_frame, wk_success, rl_pc, uploaded, published,
                   heartbeat, src_next, written, wk_reads>>

\* run_worker, lines 94-100, with the two tests inverted
WorkerSkipsInverted(success, frame) == ~(frame = 0 \/ ~success)

\* run_worker, lines 94-100: "if frame is None: continue" and
\* "if not success: continue"
WorkerSkips(success, frame) == frame = 0 \/ ~success

WkCheck ==
    /\ wk_pc = "check"
    /\ wk_pc' = IF WorkerSkips(wk_success, wk_frame) THEN "read" ELSE "process"
    /\ UNCHANGED <<svcVars, engineVars, completed, wk_latest, ff_cap,
                   ff_frame, ff_success, ff_running, ff_lock,
                   rd_pc, rd_success, rd_frame, wk_success, wk_frame, rl_pc,
                   uploaded, published, heartbeat, src_next, written, wk_reads>>

\* the events of one pass over the boxes (lines 115-173): box i of the pass
\* is encoded, uploaded and published, and each step can fail
Outcomes == {"ok", "encode_failed", "upload_failed", "publish_failed"}

EventId(n, i) == <<n, i>>

\* the pass with r.publish outside the try block of the upload
RECURSIVE PublishedOfAnyUpload(_, _, _, _)
PublishedOfAnyUpload(oc, n, frame, i) ==
    IF i > Len(oc) THEN <<>>
    ELSE (IF oc[i] \in {"ok", "upload_failed"}
          THEN <<[id |-> EventId(n, i), frame |-> frame]>> ELSE <<>>)
         \o PublishedOfAnyUpload(oc, n, frame, i + 1)

RECURSIVE PublishedOf(_, _, _, _)
PublishedOf(oc, n, frame, i) ==
    IF i > Len(oc) THEN <<>>
    ELSE (IF oc[i] = "ok" THEN <<[id |-> EventId(n, i), frame |-> frame]>> ELSE <<>>)
         \o PublishedOf(oc, n, frame, i + 1)

UploadedOf(oc, n) ==
    {EventId(n, i) : i \in {j \in DOMAIN oc : oc[j] \in {"ok", "publish_failed"}}}

\* run_worker, lines 102-173: the heartbeat, the detection and the events
WkProcess ==
    /\ wk_pc = "process"
    /\ \E hb \in {"not_due", "written", "raised"} :
          IF hb = "raised"
          THEN /\ wk_pc' = "crashed"
               /\ UNCHANGED <<uploaded, published, heartbeat>>
          ELSE /\ heartbeat' = (heartbeat \/ hb = "written")
               /\ \E n \in 0..MaxBoxes : \E oc \in [1..n -> Outcomes] :
                     /\ uploaded' = uploaded \cup UploadedOf(oc, wk_reads)
                     /\ published' = published \o PublishedOf(oc, wk_reads, wk_frame, 1)
               /\ wk_pc' = "read"
    /\ UNCHANGED <<svcVars, engineVars, completed, wk_latest, ff_cap,
                   ff_frame, ff_success, ff_running, ff_lock,
                   rd_pc, rd_success, rd_frame, wk_success, wk_frame, rl_pc,
                   src_next, written, wk_reads>>

\* release, line 57: self.running = False
ReleaseFlag ==
    /\ rl_pc = "idle"
    /\ ff_cap # "unset"
    /\ ff_running' = FALSE
    /\ rl_pc' = "flagged"
    /\ UNCHANGED <<svcVars, engineVars, completed, wk_latest, ff_cap,
                   ff_frame, ff_success, ff_lock, rd_pc,
                   rd_success, rd_frame, wk_pc, wk_success, wk_frame, uploaded,
                   published, heartbeat, src_next, written, wk_reads>>

\* release, line 58: self.cap.release()
ReleaseCap ==
    /\ rl_pc = "flagged"
    /\ ff_cap' = "released"
    /\ rl_pc' = "released"
    /\ UNCHANGED <<svcVars, engineVars, completed, wk_latest, ff_frame,
                   ff_success, ff_running, ff_lock, rd_pc,
                   rd_success, rd_frame, wk_pc, wk_success, wk_frame, uploaded,
                   published, heartbeat, src_next, written, wk_reads>>

FFNext ==
    \/ WkSetup
    \/ RdLoop
    \/ RdRead
    \/ RdSleep
    \/ RdAcquire
    \/ RdWriteFrame
    \/ RdWriteSuccess
    \/ WkAcquire
    \/ WkLoadSuccess
    \/ WkLoadFrame
    \/ WkCheck
    \/ WkProcess
    \/ ReleaseFlag
    \/ ReleaseCap

FFSpec == LiveInit /\ [][FFNext]_vars

(***************************************************************************)
(* Properties.                                                             *)
(***************************************************************************)
RECURSIVE SentFrameNumbers(_)
SentFrameNumbers(s) ==
    IF s = <<>> THEN <<>>
    ELSE FrameNumbers(Head(s).frames) \o SentFrameNumbers(Tail(s))

Occurrences(q, x) == Cardinality({i \in DOMAIN q : q[i] = x})

InSession == pc \in {"stream", "poll", "file_loop"}

Segmented == mode \in {"LIVE", "HTTP"}

\* C1: in LIVE and HTTP mode every frame that was put into an episode buffer
\* is, at every moment, accounted for exactly once: it is still in the open
\* buffer or it has been passed to _send_episode, and never twice.
C1_FlushedExactlyOnce ==
    Segmented =>
        \A i \in DOMAIN buffered :
            Occurrences(SentFrameNumbers(sent) \o FrameNumbers(active_frames),
                        buffered[i]) = 1

\* C2: in LIVE and HTTP mode the open buffer never holds more than
\* MAX_EPISODE_FRAMES records after a step, and no episode passed to
\* _send_episode has more than MAX_EPISODE_FRAMES frames.
C2_EpisodeCap ==
    Segmented =>
        /\ Len(active_frames) <= MaxEpisodeFrames
        /\ \A i \in DOMAIN sent : Len(sent[i].frames) <= MaxEpisodeFrames

\* a cap-forced flush of a full episode has happened in both modes' code
C2_Witness ==
    /\ Segmented
    /\ \E i \in DOMAIN sent :
          sent[i].site = "cap" /\ Len(sent[i].frames) = MaxEpisodeFrames
    /\ active_frames # <<>>

\* C3: in every mode, once start() has ended (returned, raised, or unwound by
\* the signal handler's sys.exit), every frame that was put into an episode
\* buffer has been passed to _send_episode.
C3_FlushedAtExit ==
    exited # "no" =>
        \A i \in DOMAIN buffered :
            Occurrences(SentFrameNumbers(sent), buffered[i]) >= 1

\* the frame numbers of the processed frames of h that had detections
ActivityFrameNumbers(h) ==
    LET a == SelectSeq(h, LAMBDA e : e.act) IN [i \in DOMAIN a |-> a[i].fn]

\* the number of silent processed frames at the end of h
RECURSIVE TrailingSilence(_)
TrailingSilence(h) ==
    IF h = <<>> \/ h[Len(h)].act THEN 0
    ELSE 1 + TrailingSilence(SubSeq(h, 1, Len(h) - 1))

DropFirst(q, k) == SubSeq(q, k + 1, Len(q))

IsSuffix(a, b) == Len(a) <= Len(b) /\ DropFirst(b, Len(b) - Len(a)) = a

AllActivity(h) == \A i \in DOMAIN h : h[i].act

\* the step processes one more frame in a LIVE or HTTP session
ProcessesFrame == Segmented /\ InSession /\ Len(hist') = Len(hist) + 1

\* the step makes exactly one more call of _send_episode
SendsOne == Len(sent') = Len(sent) + 1 /\ SubSeq(sent', 1, Len(sent)) = sent

\* the activity frames of the session processed since its last flush
OpenFrames == DropFirst(ActivityFrameNumbers(hist), Len(flushed))

C4_SilenceStep ==
    ProcessesFrame =>
        LET e == hist'[Len(hist')] IN
        /\ e.act => silence_counter' = 0
        /\ ~e.act =>
              IF OpenFrames # <<>> /\ TrailingSilence(hist') = SilenceThreshold
              THEN /\ SendsOne
                   /\ sent'[Len(sent')].site = "silence"
                   /\ FrameNumbers(sent'[Len(sent')].frames) = OpenFrames
                   /\ active_frames' = <<>>
              ELSE /\ sent' = sent
                   /\ active_frames' = active_frames

\* C4: in LIVE and HTTP mode a silent processed frame closes and flushes the
\* open episode if and only if it is the SILENCE_THRESHOLD-th consecutive
\* silent processed frame since the last activity frame; the flushed episode
\* holds exactly the activity frames processed since the previous flush, and
\* an activity frame sets the silence count back to zero.
C4_SilenceClose == [][C4_SilenceStep]_vars

\* activity, one silent frame, activity, then SILENCE_THRESHOLD silent frames:
\* the episode of the two activity frames has just been flushed
C4_Witness ==
    /\ Segmented /\ InSession
    /\ Len(hist) = 3 + SilenceThreshold
    /\ hist[1].act /\ ~hist[2].act /\ hist[3].act
    /\ sent # <<>>
    /\ sent[Len(sent)].site = "silence"
    /\ FrameNumbers(sent[Len(sent)].frames) = <<hist[1].fn, hist[3].fn>>
    /\ active_frames = <<>>

C5_Burst ==
    (Segmented /\ InSession /\ AllActivity(hist)) =>
        /\ Len(active_frames) = Len(hist) % MaxEpisodeFrames
        /\ Len(flushed) = (Len(hist) \div MaxEpisodeFrames) * MaxEpisodeFrames
        /\ episode_count = Len(hist) \div MaxEpisodeFrames

C5_BurstStep ==
    (ProcessesFrame /\ AllActivity(hist')) =>
        IF Len(hist') % MaxEpisodeFrames = 0
        THEN /\ SendsOne
             /\ sent'[Len(sent')].site = "cap"
             /\ Len(sent'[Len(sent')].frames) = MaxEpisodeFrames
        ELSE sent' = sent

\* C5: while a session has processed n frames, all with detections, a forced
\* flush has happened exactly on the frames whose count is a multiple of
\* MAX_EPISODE_FRAMES, each forced flush carried MAX_EPISODE_FRAMES frames
\* and the open buffer holds n mod MAX_EPISODE_FRAMES frames.
C5_ForcedFlush == []C5_Burst /\ [][C5_BurstStep]_vars

\* MAX_EPISODE_FRAMES + 2 frames of uninterrupted activity: one forced flush
\* and two frames open
C5_Witness ==
    /\ Segmented /\ InSession
    /\ AllActivity(hist)
    /\ Len(hist) = MaxEpisodeFrames + 2
    /\ Len(active_frames) = 2
    /\ episode_count = 1

\* C6: at every step boundary of a session the frames the segmenter has
\* passed to _send_episode in this session, followed by the open buffer, are
\* exactly the processed frames that had detections, in processing order.
C6_NoActivityFrameLost ==
    InSession =>
        /\ flushed \o FrameNumbers(active_frames) = ActivityFrameNumbers(hist)
        /\ IsSuffix(flushed, SentFrameNumbers(sent))

\* after a cap flush the session went on: the frame that filled the episode is
\* in the flushed part, the next activity frame is in the open buffer
C6_Witness ==
    /\ Segmented /\ InSession
    /\ Len(flushed) = MaxEpisodeFrames
    /\ Len(active_frames) = 1
    /\ Len(hist) > MaxEpisodeFrames + 1
    /\ sent[Len(sent)].site = "cap"

\* a step that leaves the streaming loop because of the failure ceiling
CeilingExit == pc = "stream" /\ pc' = "stream_error" /\ frame_count' = frame_count

C7_ExitStep ==
    /\ CeilingExit =>
          /\ failrun = LIVE_MAX_FAILURES
          /\ cap = "open" /\ cap' = "open"
          /\ active_frames # <<>> =>
                /\ Len(sent') > Len(sent)
                /\ sent'[Len(sent) + 1].frames = active_frames
    /\ (pc = "stream" /\ failrun < LIVE_MAX_FAILURES /\ running) => ~CeilingExit
    /\ (pc = "stream" /\ failrun >= LIVE_MAX_FAILURES) => failrun' <= failrun

\* C7: in LIVE mode the streaming loop is left for a reconnect after exactly
\* max_failures consecutive failed reads (no read is made past the ceiling),
\* a non-empty episode buffer is passed to _send_episode while the source
\* handle is still open, and unless the detector is stopped a new
\* _connect_stream follows.
C7_CeilingReconnect ==
    /\ [][C7_ExitStep]_vars
    /\ (pc = "stream_error" /\ running) ~> (pc = "connect" \/ ~running)

\* the loop was left at the ceiling with a buffered episode, which was sent,
\* and the detector is about to connect again
C7_Witness ==
    /\ mode = "LIVE"
    /\ pc = "connect"
    /\ \E i \in DOMAIN sent : sent[i].site = "ceiling"

C8_Sessions ==
    mode = "HTTP" =>
        /\ sessions <= MAX_RECONNECTS
        /\ reconnect_count <= MAX_RECONNECTS
        /\ allfail =>
              /\ running =>
                    polls = reconnect_count * HTTP_MAX_FAILURES + consecutive_failures
              /\ reconnect_count = MAX_RECONNECTS =>
                    /\ sessions = MAX_RECONNECTS
                    /\ polls = MAX_RECONNECTS * HTTP_MAX_FAILURES
              /\ (exited = "returned" /\ polls < MAX_RECONNECTS * HTTP_MAX_FAILURES) =>
                    sessions <= 1 + polls \div HTTP_MAX_FAILURES

\* C8: in HTTP mode at most max_reconnects polling sessions are started;
\* while every fetch fails each session ends after MAX_FAILURES failed polls,
\* the detector ends (start() returns), and no poll is made afterwards.
C8_GivesUp ==
    /\ []C8_Sessions
    /\ [][pc = "done" => polls' = polls]_vars
    /\ <>(pc = "done" \/ ~allfail)

\* every fetch failed and the detector gave up after max_reconnects sessions
C8_Witness ==
    /\ mode = "HTTP"
    /\ allfail
    /\ exited = "returned"
    /\ reconnect_count = MAX_RECONNECTS
    /\ sessions = MAX_RECONNECTS

\* C9: the pair (success, frame) that read() returns to the worker is the
\* initial pair (False, None) or a pair written by one update of the reader;
\* never the frame of one update with the flag of another.
C9_NoTornRead ==
    wk_pc \in {"check", "process"} =>
        \/ <<wk_success, wk_frame>> = <<FALSE, 0>>
        \/ <<wk_success, wk_frame>> \in written

\* the worker's second read returned a written pair while the reader was
\* waiting for the lock with the next frame
C9_Witness ==
    /\ wk_pc = "check"
    /\ wk_reads = 2
    /\ wk_success /\ wk_frame = 1
    /\ rd_pc = "lock" /\ rd_frame = 2

\* a worker that holds the "no frame yet" pair
NoFrameYet == wk_pc = "check" /\ ~wk_success /\ wk_frame = 0

C10_Step ==
    /\ (wk_pc = "load_frame" /\ wk_pc' = "check" /\ written = {}) =>
          (~wk_success' /\ wk_frame' = 0)
    /\ (NoFrameYet /\ wk_pc' # wk_pc) =>
          (wk_pc' = "read" /\ published' = published /\ uploaded' = uploaded)

\* C10: a read() made before any update of the reader returns
\* (False, None), also when the source did not open and no reader thread
\* exists; the worker that receives it goes back to reading: it processes no
\* frame, publishes nothing and does not fail.
C10_NoFrameYetResult ==
    /\ [][C10_Step]_vars
    /\ [](rd_pc = "nothread" =>
            /\ published = <<>> /\ uploaded = {}
            /\ wk_pc \in {"read", "load_success", "load_frame", "check"}
            /\ (wk_pc = "check" => NoFrameYet))

\* the source did not open; the worker has read, got no frame, and is
\* reading again
C10_Witness ==
    /\ rd_pc = "nothread"
    /\ wk_pc = "load_frame"
    /\ wk_reads = 2
    /\ ~wk_success /\ wk_frame = 0

\* C11: read() returns the pair of the reader's most recent update that was
\* completed before read() took the lock (the initial pair if there was
\* none), and the reader never waits for a consumer: whenever it stands at
\* its "with self.lock" and no read() is in progress, it can enter.
C11_ReadStep ==
    (wk_pc = "load_frame" /\ wk_pc' = "check") =>
        /\ wk_frame' = wk_latest
        /\ wk_success' = (wk_latest # 0)

C11_ProducerFree ==
    (rd_pc = "lock" /\ wk_pc \notin {"load_success", "load_frame"}) =>
        ENABLED RdAcquire

C11_LastWriteWins == []C11_ProducerFree /\ [][C11_ReadStep]_vars

\* the first read() returns frame 2: frame 1 was overwritten unread
C11_Witness ==
    /\ wk_pc = "check"
    /\ wk_reads = 1
    /\ wk_latest = 2
    /\ wk_frame = 2

\* C12: the reader calls self.cap.read() only on a handle that release()
\* has not released.
C12_ReaderReads == rd_pc = "read" /\ rd_pc' # "read"

C12_NoReadAfterRelease == [][C12_ReaderReads => ff_cap # "released"]_vars

(***************************************************************************)
(* Delivery: _post_detection (one per-frame event) and _send_episode (one  *)
(* episode).  Both are functions of the configuration and of what the      *)
(* transports answer; they keep no state between two calls.  The outcome   *)
(* of a redis call is "ok" or "RedisError" (redis.RedisError and its       *)
(* subclasses), the outcome of requests.post is a status code or one of    *)
(* the exceptions of requests.                                             *)
(***************************************************************************)
RedisOutcomes == {"ok", "RedisError"}

HttpOutcomes == {"200", "201", "500", "Timeout", "ConnectionError", "RequestException"}

HttpExceptions == {"Timeout", "ConnectionError", "RequestException"}

\* "except requests.RequestException" without its subclasses
IsRequestExceptionExact(o) == o = "RequestException"

\* "except requests.RequestException": Timeout and ConnectionError are
\* subclasses of it
IsRequestException(o) == o \in HttpExceptions

\* a redis path that never reaches its return statement
RedisNeverReturns(lp, pb) == FALSE

\* lines 812-815 and 1027-1033: the return is reached when neither call raised
RedisReturns(lp, pb) == lp = "ok" /\ pb = "ok"

\* lines 810-818 and 1025-1036: lpush, then publish, in one try block
RedisOps(lp, pb) ==
    IF lp = "ok"
    THEN <<[op |-> "lpush", outcome |-> lp], [op |-> "publish", outcome |-> pb]>>
    ELSE <<[op |-> "lpush", outcome |-> lp]>>

HttpOp(http) == <<[op |-> "http", outcome |-> http]>>

\* _post_detection: the operations it attempts and how it ends
PostDetection(rc, ep, lp, pb, http) ==
    LET primary == IF rc THEN RedisOps(lp, pb) ELSE <<>>
    IN  IF rc /\ RedisReturns(lp, pb)
        THEN [ops |-> primary, result |-> "returned"]
        ELSE IF ~ep
        THEN [ops |-> primary, result |-> "returned"]
        ELSE [ops |-> primary \o HttpOp(http),
              result |-> IF http \in HttpExceptions /\ ~IsRequestException(http)
                         THEN "raised" ELSE "returned"]

\* _send_episode: the operations it attempts and the value it returns; the
\* handlers of lines 1062-1073 end with "except Exception"
SendEpisodeTransport(rc, ep, lp, pb, http) ==
    LET primary == IF rc THEN RedisOps(lp, pb) ELSE <<>>
    IN  IF rc /\ RedisReturns(lp, pb)
        THEN [ops |-> primary, result |-> "true"]
        ELSE IF ~ep
        THEN [ops |-> primary, result |-> "false"]
        ELSE [ops |-> primary \o HttpOp(http),
              result |-> IF http = "200" THEN "true" ELSE "false"]

RECURSIVE Tagged(_, _, _)
Tagged(ops, n, fn) ==
    IF ops = <<>> THEN <<>>
    ELSE <<[call |-> n, fn |-> fn, op |-> Head(ops).op, outcome |-> Head(ops).outcome]>>
         \o Tagged(Tail(ops), n, fn)

\* an exception that leaves _post_detection ends the loop that called it
DeliveryGoesOn ==
    /\ Len(dl_results) < MaxCalls
    /\ \A i \in DOMAIN dl_results : dl_results[i].result # "raised"

Deliver(fn, r) ==
    LET n == Len(dl_results) + 1
    IN  /\ dl_log' = dl_log \o Tagged(r.ops, n, fn)
        /\ dl_results' = Append(dl_results, [call |-> n, fn |-> fn, result |-> r.result])

PostDetectionCall ==
    /\ DeliveryGoesOn
    /\ \E lp \in RedisOutcomes, pb \in RedisOutcomes, http \in HttpOutcomes :
          Deliver("post", PostDetection(redis_client, endpoint, lp, pb, http))
    /\ UNCHANGED <<pairVars, engineVars, ffVars, alVars, hbVars, redis_client, endpoint>>

\* a _send_episode that gives up the queue transport after its first error
SendEpisodeDropsClient ==
    /\ DeliveryGoesOn
    /\ \E lp \in RedisOutcomes, pb \in RedisOutcomes, http \in HttpOutcomes :
          /\ Deliver("episode", SendEpisodeTransport(redis_client, endpoint, lp, pb, http))
          /\ redis_client' = (redis_client /\ RedisReturns(lp, pb))
    /\ UNCHANGED <<pairVars, engineVars, ffVars, alVars, hbVars, endpoint>>

SendEpisodeCall ==
    /\ DeliveryGoesOn
    /\ \E lp \in RedisOutcomes, pb \in RedisOutcomes, http \in HttpOutcomes :
          Deliver("episode", SendEpisodeTransport(redis_client, endpoint, lp, pb, http))
    /\ UNCHANGED <<pairVars, engineVars, ffVars, alVars, hbVars, redis_client, endpoint>>

\* every configuration of the two transports
DeliveryInit ==
    /\ Constructed
    /\ mode = "LIVE"
    /\ redis_client \in BOOLEAN
    /\ endpoint \in BOOLEAN
    /\ telegram_enabled = TRUE

DeliveryNext ==
    \/ PostDetectionCall
    \/ SendEpisodeCall

DeliverySpec == DeliveryInit /\ [][DeliveryNext]_vars

OpsOf(n, op) == {i \in DOMAIN dl_log : dl_log[i].call = n /\ dl_log[i].op = op}

RedisRaised(n) ==
    \E i \in DOMAIN dl_log :
        /\ dl_log[i].call = n
        /\ dl_log[i].op \in {"lpush", "publish"}
        /\ dl_log[i].outcome = "RedisError"

\* C13: with the queue transport configured, every delivery call attempts
\* both the push onto the queue and the publish on the channel.
C13_BothAttempted ==
    redis_client =>
        \A n \in DOMAIN dl_results :
            OpsOf(n, "lpush") # {} /\ OpsOf(n, "publish") # {}

\* C14: one call makes at most one attempt on each transport operation; it
\* makes the HTTP request exactly when an endpoint is configured and either
\* no queue transport is configured or the queue attempt raised a transport
\* error.
C14_PathExclusive ==
    \A n \in DOMAIN dl_results :
        /\ Cardinality(OpsOf(n, "lpush")) <= 1
        /\ Cardinality(OpsOf(n, "publish")) <= 1
        /\ Cardinality(OpsOf(n, "http")) <= 1
        /\ OpsOf(n, "http") # {} <=> (endpoint /\ (~redis_client \/ RedisRaised(n)))

\* a push that succeeded, a publish that raised, and the fallback request
C14_Witness ==
    \E n \in DOMAIN dl_results :
        /\ \E i \in OpsOf(n, "lpush") : dl_log[i].outcome = "ok"
        /\ \E i \in OpsOf(n, "publish") : dl_log[i].outcome = "RedisError"
        /\ OpsOf(n, "http") # {}

PersonLow == [class |-> "person", confidence |-> 60, bbox |-> 3]
PersonAtThreshold == [class |-> "person", confidence |-> 70, bbox |-> 4]
PersonHigh == [class |-> "person", confidence |-> 90, bbox |-> 5]

AlertBatches ==
    {<<>>, <<DetCar, PersonLow>>, <<PersonAtThreshold>>,
     <<PersonLow, DetPerson, PersonHigh>>}

\* the seconds that pass between two calls of the gate
TimeSteps == {10, 25}

\* line 859
Qualifies(det) ==
    det.class = "person" /\ det.confidence >= ALERT_CONFIDENCE_THRESHOLD

\* the cooldown test with <= in place of <
CooldownActiveInclusive(current_time, last) == current_time - last <= ALERT_COOLDOWN

\* line 854: current_time - self.last_alert_time < self.ALERT_COOLDOWN
CooldownActive(current_time, last) == current_time - last < ALERT_COOLDOWN

\* the loop of lines 858-878 without its break
RECURSIVE GateAttemptsNoBreak(_, _)
GateAttemptsNoBreak(batch, i) ==
    IF i > Len(batch) THEN <<>>
    ELSE (IF Qualifies(batch[i]) THEN <<batch[i]>> ELSE <<>>)
         \o GateAttemptsNoBreak(batch, i + 1)

\* lines 858-878: the detections send_alert is called for, from index i on
RECURSIVE GateAttempts(_, _)
GateAttempts(batch, i) ==
    IF i > Len(batch) THEN <<>>
    ELSE IF Qualifies(batch[i]) THEN <<batch[i]>>
    ELSE GateAttempts(batch, i + 1)

RECURSIVE AlertRecords(_, _, _)
AlertRecords(dets, t, ok) ==
    IF dets = <<>> THEN <<>>
    ELSE <<[time |-> t, confidence |-> Head(dets).confidence, delivered |-> ok]>>
         \o AlertRecords(Tail(dets), t, ok)

\* a gate that records the time of the attempt before send_alert is called
AlertCallStampsAttempt ==
    /\ Len(al_calls) < MaxAlertCalls
    /\ \E batch \in AlertBatches, ok \in BOOLEAN :
          LET att == IF ~telegram_enabled \/ CooldownActive(now, last_alert_time)
                     THEN <<>>
                     ELSE GateAttempts(batch, 1)
          IN  /\ alerts' = alerts \o AlertRecords(att, now, ok)
              /\ last_alert_time' = IF att # <<>> THEN now ELSE last_alert_time
              /\ al_calls' = Append(al_calls, [time |-> now, batch |-> batch])
    /\ UNCHANGED <<pairVars, engineVars, ffVars, dlVars, hbVars, telegram_enabled, now>>

\* one call of _send_telegram_alert; ok: send_alert returns, else it raises
AlertCall ==
    /\ Len(al_calls) < MaxAlertCalls
    /\ \E batch \in AlertBatches, ok \in BOOLEAN :
          LET att == IF ~telegram_enabled \/ CooldownActive(now, last_alert_time)
                     THEN <<>>
                     ELSE GateAttempts(batch, 1)
          IN  /\ alerts' = alerts \o AlertRecords(att, now, ok)
              /\ last_alert_time' = IF att # <<>> /\ ok THEN now ELSE last_alert_time
              /\ al_calls' = Append(al_calls, [time |-> now, batch |-> batch])
    /\ UNCHANGED <<pairVars, engineVars, ffVars, dlVars, hbVars, telegram_enabled, now>>

\* time passes between two processed frames
Tick ==
    /\ \E d \in TimeSteps : now + d <= MaxTime /\ now' = now + d
    /\ UNCHANGED <<pairVars, engineVars, ffVars, dlVars, hbVars, telegram_enabled,
                   last_alert_time, alerts, al_calls>>

AlertInit ==
    /\ Constructed
    /\ mode = "LIVE"
    /\ redis_client = TRUE
    /\ endpoint = TRUE
    /\ telegram_enabled \in BOOLEAN

AlertNext ==
    \/ AlertCall
    \/ Tick

AlertSpec == AlertInit /\ [][AlertNext]_vars

HasQualifying(batch) ==
    \E i \in DOMAIN batch :
        batch[i].class = "person" /\ batch[i].confidence >= 70

Fired == {i \in DOMAIN alerts : alerts[i].delivered}

\* time of the last notification that was sent, 0 before the first
LastFired ==
    IF Fired = {} THEN 0
    ELSE alerts[CHOOSE i \in Fired : \A j \in Fired : j <= i].time

GateCalled == Len(al_calls') = Len(al_calls) + 1

\* C16: two notifications that were sent are at least ALERT_COOLDOWN seconds
\* apart, and a call of the enabled gate with a qualifying batch, made
\* ALERT_COOLDOWN seconds or more after the last sent notification, calls
\* send_alert once, at the time of the call.
C16_Apart ==
    \A i \in Fired : \A j \in Fired :
        i < j => alerts[j].time - alerts[i].time >= 30

C16_FireStep ==
    GateCalled =>
        LET c == al_calls'[Len(al_calls')]
        IN  (telegram_enabled /\ HasQualifying(c.batch) /\ c.time - LastFired >= 30)
                => /\ Len(alerts') = Len(alerts) + 1
                   /\ alerts'[Len(alerts')].time = c.time

C16_Cooldown == []C16_Apart /\ [][C16_FireStep]_vars

\* qualifying batches at t, t+10 and t+35: notifications at t and t+35 only
C16_Witness ==
    /\ Len(al_calls) = 3
    /\ \A k \in 1..3 : HasQualifying(al_calls[k].batch)
    /\ al_calls[2].time = al_calls[1].time + 10
    /\ al_calls[3].time = al_calls[1].time + 35
    /\ Len(alerts) = 2
    /\ Fired = {1, 2}
    /\ alerts[1].time = al_calls[1].time
    /\ alerts[2].time = al_calls[3].time

\* C17: one call of the gate calls send_alert at most once, for the first
\* qualifying detection of the batch; a batch without a qualifying detection
\* causes no call of send_alert and leaves last_alert_time unchanged.
C17_BatchStep ==
    GateCalled =>
        LET b == al_calls'[Len(al_calls')].batch
            q == {i \in DOMAIN b : b[i].class = "person" /\ b[i].confidence >= 70}
        IN  /\ Len(alerts') <= Len(alerts) + 1
            /\ Len(alerts') = Len(alerts) + 1 =>
                  /\ q # {}
                  /\ alerts'[Len(alerts')].confidence =
                        b[CHOOSE i \in q : \A j \in q : i <= j].confidence
            /\ q = {} => (alerts' = alerts /\ last_alert_time' = last_alert_time)

C17_OnePerBatch == [][C17_BatchStep]_vars

\* a batch with two qualifying detections; the notification is for the first
C17_Witness ==
    /\ al_calls # <<>>
    /\ al_calls[Len(al_calls)].batch = <<PersonLow, DetPerson, PersonHigh>>
    /\ Len(alerts) = 1
    /\ alerts[1].confidence = DetPerson.confidence
    /\ alerts[1].time = al_calls[Len(al_calls)].time

(***************************************************************************)
(* The heartbeat thread of the detector: heartbeat_loop, started by        *)
(* start() through _start_heartbeat_thread when a redis client exists.     *)
(* It is a daemon thread (line 1109) and nothing joins it: when start()    *)
(* has returned or sys.exit(0) has unwound the main thread, the script is  *)
(* at its end (line 1255) and the interpreter exits, ending the thread     *)
(* wherever it is.                                                         *)
(***************************************************************************)
HbAlive == hb_pc \in {"loop", "write", "sleep", "delete"}

\* line 1089: while self.running
HbCheck ==
    /\ hb_pc = "loop"
    /\ hb_pc' = IF running THEN "write" ELSE "delete"
    /\ UNCHANGED <<pairVars, engineVars, ffVars, dlVars, alVars, marker>>

\* lines 1090-1097: redis_client.set, its errors logged
HbWrite ==
    /\ hb_pc = "write"
    /\ \E ok \in BOOLEAN : marker' = (marker \/ ok)
    /\ hb_pc' = "sleep"
    /\ UNCHANGED <<pairVars, engineVars, ffVars, dlVars, alVars>>

\* line 1100: time.sleep(self.HEARTBEAT_INTERVAL)
HbSleep ==
    /\ hb_pc = "sleep"
    /\ hb_pc' = "loop"
    /\ UNCHANGED <<pairVars, engineVars, ffVars, dlVars, alVars, marker>>

\* lines 1102-1107: redis_client.delete, its errors passed over
HbDelete ==
    /\ hb_pc = "delete"
    /\ \E ok \in BOOLEAN : marker' = (marker /\ ~ok)
    /\ hb_pc' = "ended"
    /\ UNCHANGED <<pairVars, engineVars, ffVars, dlVars, alVars>>

\* the interpreter exits after the main thread has ended
ProcessExit ==
    /\ exited # "no"
    /\ HbAlive
    /\ hb_pc' = "killed"
    /\ UNCHANGED <<pairVars, engineVars, ffVars, dlVars, alVars, marker>>

HbThread ==
    \/ HbCheck
    \/ HbWrite
    \/ HbSleep
    \/ HbDelete

HbNext ==
    \/ Next
    \/ HbThread
    \/ ProcessExit

\* the detector with its heartbeat thread; the threads and the exit of the
\* process are scheduled fairly
HbSpec ==
    Init /\ [][HbNext]_vars /\ WF_vars(MainNext) /\ WF_vars(HbThread)
         /\ WF_vars(ProcessExit)

\* C18: once the pipeline has shut down, the liveness marker is eventually
\* absent from the store and stays absent.
C18_MarkerRemoved == [](exited # "no" => <>[](~marker))

\* C19: a failed write of the liveness marker does not end the worker loop
\* of run_worker.
C19_HeartbeatIsolated == wk_pc # "crashed"

(***************************************************************************)
(* The detector in every mode with its main thread scheduled fairly: every *)
(* call the main thread makes returns (time.sleep, cap.read with its       *)
(* timeout, requests with timeout=).                                       *)
(***************************************************************************)
FairSpec == Init /\ [][Next]_vars /\ WF_vars(MainNext)

\* C20: once self.running is cleared, no frame is read or processed, no
\* snapshot is fetched, no connection attempt and no polling session is
\* started, and start() comes to its end.
C20_StoppedStep ==
    ~running =>
        /\ nproc' = nproc
        /\ frame_count' = frame_count
        /\ polls' = polls
        /\ sessions' = sessions
        /\ pc' = "connect" => pc = "connect"

C20_ShutdownTerminates ==
    /\ [][C20_StoppedStep]_vars
    /\ [](~running => <>(exited # "no"))

\* stop() was called while the live loop waited in its reconnect delay
C20_Witness ==
    /\ mode = "LIVE"
    /\ pc = "reconnect_wait"
    /\ ~running
    /\ exited = "no"

(***************************************************************************)
(* Startup with a mode that start() does not know.                         *)
(***************************************************************************)
\* C21: when start() fails on an unknown mode, no transport connection has
\* been opened and no heartbeat thread has been started.
C21_RejectedEarly ==
    (mode \notin Modes /\ exited = "raised") =>
        (~redis_client /\ hb_pc = "unborn")

(***************************************************************************)
(* UPLOAD mode: the source that cannot be opened and the end of the file.  *)
(***************************************************************************)
\* the step in which cv2.VideoCapture(source) is not opened
OpenFailsStep == pc = "file_open" /\ exited' = "raised"

\* the step in which the loop is left with no frame read
ReadFailsStep == pc = "file_loop" /\ pc' # "file_loop" /\ frame_count' = frame_count

C22_FileStep ==
    /\ OpenFailsStep =>
          /\ pc' = "done"
          /\ sent' = <<>> /\ posted' = <<>>
          /\ cap' = "None"
    /\ pc' = "file_open" => pc \in {"start", "file_open"}
    /\ ReadFailsStep =>
          \/ pc' = "cleanup" /\ exited' = "no" /\ cap' = "None"
          \/ exited' = "sysexit"
    /\ (mode = "UPLOAD" /\ pc = "cleanup" /\ pc' # "cleanup") =>
          exited' \in {"returned", "sysexit"}
    /\ exited # "no" => (sent' = sent /\ posted' = posted /\ pc' = pc)

\* C22: in file mode a source that cannot be opened raises out of start()
\* with no retry and nothing delivered; a failed read after a successful
\* open ends the loop, start() returns, and no reconnect is ever attempted.
C22_FileSource ==
    /\ [][C22_FileStep]_vars
    /\ [](mode = "UPLOAD" => (sessions = 0 /\ reconnect_count = 0
                              /\ pc \notin {"connect", "reconnect_wait",
                                            "stream_error", "http_wait"}))

\* the file ended after an episode was buffered, and start() returned
C22_Witness ==
    /\ mode = "UPLOAD"
    /\ exited = "returned"
    /\ Len(sent) > 0

\* the file could not be opened
C22_OpenFailed ==
    /\ mode = "UPLOAD"
    /\ exited = "raised"
    /\ frame_count = 0

(***************************************************************************)
(* Two runs of one session loop, LIVE or HTTP, fed the same reads and the  *)
(* same detections, each with delivery results of its own.                 *)
(***************************************************************************)
\* what cap.read() / _fetch_http_snapshot and _detect_frame give one iteration
Reads ==
    {[ret |-> FALSE, dets |-> <<>>]} \cup {[ret |-> TRUE, dets |-> b] : b \in Batches}

\* how the delivery calls of one iteration end
Results == {"ok", "failed"}

PairInit == Init /\ mode \in {"LIVE", "HTTP"}

PairStep ==
    /\ ~runA.over /\ ~runB.over
    /\ \E rd \in Reads, ra \in Results, rb \in Results :
          /\ (rd.ret /\ ~RunSkips(runA.frame_count + 1)) => runA.nproc < MaxProcessed
          /\ runA' = RunNext(runA, rd, ra)
          /\ runB' = RunNext(runB, rd, rb)
    /\ UNCHANGED <<engineVars, ffVars, dlVars, alVars, hbVars>>

PairSpec == PairInit /\ [][PairStep]_vars

\* what a run handed to the delivery operation, and what it still holds
CallsOf(st) == <<st.sent, st.posted>>
BufferOf(st) == <<st.active_frames, st.detections_summary, st.silence_counter,
                  st.episode_start_time, st.consecutive_failures, st.over>>

\* C23: two runs of the session loop on the same read results and the same
\* detections pass the same episodes, flushed at the same points, and the
\* same per-frame events to delivery, whatever the delivery calls returned.
C23_SameCalls ==
    /\ CallsOf(runA) = CallsOf(runB)
    /\ BufferOf(runA) = BufferOf(runB)

\* the delivery calls of the two runs ended differently after two episodes
C23_Witness ==
    /\ runA.last_result = "ok"
    /\ runB.last_result = "failed"
    /\ Len(runA.sent) >= 2
    /\ Len(runA.posted) >= 3
    /\ runA.active_frames # <<>>

\* the locals of the running detector, as a run
EngineRun ==
    [frame_count |-> frame_count, active_frames |-> active_frames,
     detections_summary |-> detections_summary, silence_counter |-> silence_counter,
     episode_start_time |-> episode_start_time, episode_count |-> episode_count,
     consecutive_failures |-> consecutive_failures, nproc |-> nproc,
     sent |-> sent, posted |-> posted, calls |-> <<>>, hist |-> hist,
     last_result |-> "none", over |-> FALSE]

NoResult(st) == [st EXCEPT !.last_result = "none", !.calls = <<>>]

\* an iteration of the session loop in which _detect_frame did not raise
IterationStep ==
    /\ pc \in {"stream", "poll"} /\ pc' = pc
    /\ EngineRun' # EngineRun
    /\ ~(frame_count' # frame_count /\ consecutive_failures' # 0)

CeilingExitStep ==
    /\ pc \in {"stream", "poll"} /\ pc' \notin {pc, "done"}
    /\ CeilingReached(consecutive_failures, MaxFailures)

\* the detector's session loops step as LoopStep and RunExit say
LoopStepAgrees ==
    /\ [][IterationStep =>
            \E rd \in Reads : EngineRun' = NoResult(LoopStep(EngineRun, rd, "ok"))]_vars
    /\ [][CeilingExitStep => sent' = RunExit(EngineRun, "ok").sent]_vars

(***************************************************************************)
(* The per-frame event and the FrameRecord of one frame.                   *)
(***************************************************************************)
\* the frame records a run has buffered or handed over in an episode
RecordsOf(st) ==
    {st.active_frames[i] : i \in DOMAIN st.active_frames}
      \cup UNION {{st.sent[e].frames[i] : i \in DOMAIN st.sent[e].frames} :
                     e \in DOMAIN st.sent}

\* label, confidence and bbox of the detections of an event
EventCore(ev) ==
    [i \in DOMAIN ev.detections |->
        [label |-> ev.detections[i].label,
         confidence |-> ev.detections[i].confidence,
         bbox |-> ev.detections[i].bbox]]

IsActivity(h) == h.act
ActivityFrames(st) ==
    LET a == SelectSeq(st.hist, IsActivity) IN [i \in DOMAIN a |-> a[i].fn]
EventFrames(st) == [i \in DOMAIN st.posted |-> st.posted[i].frame_number]

\* every frame of a send call was posted earlier in the call log
PostedBeforeSent(c) ==
    \A j \in DOMAIN c :
        c[j].op = "send" =>
            \A k \in DOMAIN c[j].frames :
                \E i \in 1..(j - 1) : c[i] = PostCall(c[j].frames[k])

\* C24: the processed frames with detections are exactly the frames with a
\* per-frame event, one event each; the event is submitted before any
\* episode holding the frame; event and FrameRecord of a frame carry the
\* same label, confidence and bbox; a frame without detections has neither.
C24_EventPerFrame ==
    /\ EventFrames(runA) = ActivityFrames(runA)
    /\ PostedBeforeSent(runA.calls)
    /\ \A r \in RecordsOf(runA) :
          /\ r.detections # <<>>
          /\ \E i \in DOMAIN runA.posted :
                /\ runA.posted[i].frame_number = r.frame_number
                /\ EventCore(runA.posted[i]) = r.detections
    /\ \A i \in DOMAIN runA.posted :
          \E r \in RecordsOf(runA) : r.frame_number = runA.posted[i].frame_number

\* an episode was flushed on the frame cap, in the iteration that posted its
\* last frame, and a frame without detections was processed
C24_Witness ==
    /\ \E e \in DOMAIN runA.sent : runA.sent[e].site = "cap"
    /\ \E h \in DOMAIN runA.hist : ~runA.hist[h].act
    /\ runA.active_frames # <<>>

(***************************************************************************)
(* The failure counter of a session: lines 343-360, 451-459 (LIVE) and     *)
(* 523-546, 628-640 (HTTP).                                                *)
(***************************************************************************)
InRetrySession == pc \in {"stream", "poll"}

\* an iteration whose read failed, whose read succeeded, and one in which
\* the processing of the frame read raised
FailedReadStep == InRetrySession /\ pc' = pc /\ failrun' = failrun + 1
GoodReadStep == InRetrySession /\ frame_count' = frame_count + 1
RaisedStep == GoodReadStep /\ nproc' = nproc + 1 /\ (pc' # pc \/ hist' = hist)

\* the session is left and a reconnect delay follows
EndsForReconnect ==
    \/ pc = "stream" /\ pc' = "stream_error"
    \/ pc = "poll" /\ pc' = "http_wait"

\* C25 as stated: a session ends for reconnect only when the ceiling was
\* reached by failed reads with no successful read in between.
C25_OnlyFailedReads == [][EndsForReconnect => failrun >= MaxFailures]_vars

C25_CountStep ==
    /\ FailedReadStep => consecutive_failures' = consecutive_failures + 1
    /\ (GoodReadStep /\ ~RaisedStep) => consecutive_failures' = 0
    /\ (RaisedStep /\ mode = "HTTP") => (consecutive_failures' = 1 /\ pc' = pc)
    /\ (RaisedStep /\ mode = "LIVE") => EndsForReconnect
    /\ (InRetrySession /\ pc' = pc /\ consecutive_failures' # consecutive_failures) =>
          (FailedReadStep \/ GoodReadStep)
    /\ (EndsForReconnect /\ ~RaisedStep) =>
          /\ consecutive_failures = MaxFailures
          /\ failrun = MaxFailures \/ (mode = "HTTP" /\ failrun = MaxFailures - 1)
    /\ (InRetrySession /\ pc' = pc /\ failrun = consecutive_failures
          /\ failrun' # consecutive_failures') => RaisedStep

\* C25, amended: each failed read adds one to consecutive_failures, each
\* successful read sets it to 0, and in polling mode an exception raised
\* while the snapshot is processed adds one after that; the counter never
\* exceeds the ceiling; without such an exception a session ends for
\* reconnect only with the counter at the ceiling and that many failed reads
\* since the last successful one, in live mode the exception itself ends the
\* session, in polling mode it stands for the first of the failures.
C25_FailureCounting ==
    /\ [](InRetrySession =>
            /\ consecutive_failures <= MaxFailures
            /\ failrun <= consecutive_failures
            /\ consecutive_failures <= failrun + 1
            /\ mode = "LIVE" => consecutive_failures = failrun)
    /\ [][C25_CountStep]_vars

\* a polling session waits to reconnect after a snapshot whose processing
\* raised and one failed fetch less than the ceiling
C25_Witness ==
    /\ mode = "HTTP"
    /\ pc = "http_wait"
    /\ nproc > Len(buffered) + 1
    /\ polls >= MaxFailures + 2
    /\ reconnect_count = 1

(***************************************************************************)
(* reconnect_count of _run_http_loop.                                      *)
(***************************************************************************)
\* C26: in polling mode a successful snapshot fetch sets reconnect_count
\* to zero.
C26_ResetByGoodRead ==
    [][(mode = "HTTP" /\ pc = "poll" /\ frame_count' = frame_count + 1) =>
          reconnect_count' = 0]_vars

(***************************************************************************)
(* The fresh-frame buffer and its worker with both threads scheduled       *)
(* fairly: the worker loop of run_worker and _reader only sleep and make   *)
(* calls that return.  release() is called from outside, if at all.        *)
(***************************************************************************)
WorkerThread ==
    \/ WkSetup
    \/ WkAcquire
    \/ WkLoadSuccess
    \/ WkLoadFrame
    \/ WkCheck
    \/ WkProcess

ReaderThread ==
    \/ RdLoop
    \/ RdRead
    \/ RdSleep
    \/ RdAcquire
    \/ RdWriteFrame
    \/ RdWriteSuccess

FFFairSpec ==
    /\ LiveInit
    /\ [][FFNext]_vars
    /\ WF_vars(WorkerThread)
    /\ WF_vars(ReaderThread)

\* cv2.VideoCapture(url) did not open the source of a worker still running
WorkerOpenFailed == ff_cap = "closed" /\ ff_running

\* C27, for the vision worker: a failure to open the source is followed by
\* another open attempt unless the buffer is released.
C27_WorkerReopens == WorkerOpenFailed ~> (wk_pc = "setup" \/ ~ff_running)

(***************************************************************************)
(* The order of the steps of a reconnect.                                  *)
(***************************************************************************)
\* the main thread sleeps RECONNECT_DELAY (lines 298 and 503)
InReconnectDelay == pc \in {"reconnect_wait", "http_wait"}

\* C28: during the delay that follows a session left on the failure ceiling
\* (allfail: no read of the detector has succeeded, so no other exit of the
\* session is possible) the source handle of that session is released.
C28_ReleasedDuringDelay ==
    (InReconnectDelay /\ allfail) =>
        (cap # "open" /\ ~http_session)

(***************************************************************************)
(* The segmenter on a frame without detections while its buffer is empty.  *)
(***************************************************************************)
\* a LIVE or HTTP iteration that processed a frame without detections while
\* no frame was buffered
SilentIdleStep ==
    /\ InRetrySession /\ pc' = pc
    /\ active_frames = <<>>
    /\ Len(hist') = Len(hist) + 1
    /\ ~hist'[Len(hist')].act

NothingDelivered == sent' = sent /\ posted' = posted

\* C29 as stated: the step leaves silence_counter, the buffer, the summary
\* and the episode start time unchanged and delivers nothing.
C29_NoOp ==
    [][SilentIdleStep =>
          /\ silence_counter' = silence_counter
          /\ active_frames' = active_frames
          /\ detections_summary' = detections_summary
          /\ episode_start_time' = episode_start_time
          /\ NothingDelivered]_vars

\* C29, amended: the step adds one to silence_counter and leaves the
\* buffer, the summary and the episode start time unchanged, and nothing is
\* delivered.
C29_CountsOnly ==
    [][SilentIdleStep =>
          /\ silence_counter' = silence_counter + 1
          /\ active_frames' = active_frames
          /\ detections_summary' = detections_summary
          /\ episode_start_time' = episode_start_time
          /\ episode_count' = episode_count
          /\ NothingDelivered]_vars

\* with nothing buffered the counter has passed the threshold
C29_Witness ==
    /\ InRetrySession
    /\ active_frames = <<>>
    /\ silence_counter > SilenceThreshold
    /\ ~hist[Len(hist)].act

C30_CounterAtMostTail == InRetrySession => silence_counter <= TrailingSilence(hist)
C30_CounterIsTail == InRetrySession => silence_counter = TrailingSilence(hist)

(***************************************************************************)
(* The episode start time and the episode buffer.                          *)
(***************************************************************************)
\* C31: between the iterations of a LIVE or HTTP session, whenever an
\* episode start time is recorded the episode buffer is non-empty.
C31_OpenEpisodeHasFrames ==
    (InRetrySession /\ episode_start_time # <<>>) => active_frames # <<>>

(***************************************************************************)
(* Frames skipped by decimation and failed reads.                          *)
(***************************************************************************)
FrameSkip == IF mode = "LIVE" THEN LIVE_FRAME_SKIP ELSE FILE_FRAME_SKIP

\* an iteration that read a frame and made no detection call
DecimatedStep ==
    /\ pc \in {"stream", "file_loop"} /\ pc' = pc
    /\ frame_count' = frame_count + 1
    /\ nproc' = nproc

SegmenterUntouched ==
    /\ silence_counter' = silence_counter
    /\ active_frames' = active_frames
    /\ detections_summary' = detections_summary
    /\ episode_start_time' = episode_start_time
    /\ hist' = hist
    /\ nproc' = nproc
    /\ sent' = sent /\ posted' = posted

C32_Step ==
    /\ (pc \in {"stream", "file_loop"} /\ nproc' # nproc) =>
          (frame_count' = frame_count + 1 /\ frame_count' % FrameSkip = 0)
    /\ (pc \in {"stream", "file_loop"} /\ frame_count' # frame_count
          /\ frame_count' % FrameSkip = 0) => nproc' = nproc + 1
    /\ DecimatedStep => (frame_count' % FrameSkip # 0 /\ SegmenterUntouched)
    /\ FailedReadStep => (SegmenterUntouched /\ frame_count' = frame_count)
    /\ ReadFailsStep => (frame_count' = frame_count /\ nproc' = nproc /\ posted' = posted)

\* C32: in live mode only the frames whose count is a multiple of 3, in file
\* mode of 10, reach detection; an iteration that skips its frame and one
\* whose read failed leave silence_counter, the buffer, the summary and the
\* start time as they were, call no detection and deliver nothing, and the
\* failed read leaves the frame count as it was.
C32_SkipsAndFailures == [][C32_Step]_vars

\* in a live session with an open episode a frame was skipped and the next
\* read failed
C32_Witness ==
    /\ mode = "LIVE" /\ pc = "stream"
    /\ active_frames # <<>>
    /\ frame_count % LIVE_FRAME_SKIP = 1
    /\ consecutive_failures = 1

(***************************************************************************)
(* The answer of the fallback endpoint.                                    *)
(***************************************************************************)
\* the answers of HttpOutcomes with a status in the 2xx range
Status2xx == {"200", "201"}

\* C33: an episode sent over the fallback request is reported as sent
\* (_send_episode returns True) exactly when the answer has a 2xx status.
C33_SuccessIs2xx ==
    \A n \in DOMAIN dl_results :
        dl_results[n].fn = "episode" =>
            \A i \in OpsOf(n, "http") :
                dl_results[n].result = "true" <=> dl_log[i].outcome \in Status2xx

C33_SuccessIs200 ==
    \A n \in DOMAIN dl_results :
        dl_results[n].fn = "episode" =>
            \A i \in OpsOf(n, "http") :
                dl_results[n].result = "true" <=> dl_log[i].outcome = "200"

(***************************************************************************)
(* The choice of the transport.                                            *)
(***************************************************************************)
\* the first transport operation of call n, "none" if it attempted nothing
FirstOpOf(n) ==
    LET ops == {i \in DOMAIN dl_log : dl_log[i].call = n}
    IN  IF ops = {} THEN "none"
        ELSE dl_log[CHOOSE i \in ops : \A j \in ops : i <= j].op

C34_QueueFirst ==
    \A n \in DOMAIN dl_results :
        FirstOpOf(n) = (IF redis_client THEN "lpush"
                        ELSE IF endpoint THEN "http" ELSE "none")

\* C34: no delivery call changes whether the queue transport (or the
\* endpoint) is configured, and every call of an engine with the queue
\* transport starts with the queue, also the call after one whose queue or
\* broadcast operation failed.
C34_TransportStatic ==
    /\ [][redis_client' = redis_client /\ endpoint' = endpoint]_vars
    /\ []C34_QueueFirst

\* the first call fell back after a queue error and the second one started
\* with the queue again
C34_Witness ==
    /\ Len(dl_results) = 2
    /\ RedisRaised(1)
    /\ OpsOf(1, "http") # {}
    /\ OpsOf(2, "lpush") # {}

(***************************************************************************)
(* A detection call that raises.                                           *)
(***************************************************************************)
\* an iteration whose frame reached _detect_frame and was not processed
DetectErrorStep ==
    /\ pc \in {"stream", "poll", "file_loop"}
    /\ nproc' = nproc + 1
    /\ (pc' # pc \/ hist' = hist)

BufferKept ==
    /\ active_frames' = active_frames
    /\ detections_summary' = detections_summary
    /\ silence_counter' = silence_counter
    /\ sent' = sent

BufferDeliveredOnce ==
    /\ Len(sent') = Len(sent) + 1
    /\ SubSeq(sent', 1, Len(sent)) = sent
    /\ sent'[Len(sent')].frames = active_frames
    /\ sent'[Len(sent')].summary = detections_summary
    /\ active_frames' = <<>>

C35_Step ==
    (DetectErrorStep /\ active_frames # <<>>) => (BufferKept \/ BufferDeliveredOnce)

\* C35: in every mode, when the detection of a frame raises, the frames
\* buffered before it either stay in the buffer with their summary and the
\* silence counter as they were, or are passed to _send_episode once with
\* their summary.
C35_BufferSurvivesError == [][C35_Step]_vars

(***************************************************************************)
(* The liveness marker and the main loop.                                  *)
(***************************************************************************)
\* the heartbeat thread of the detector, once in its loop, comes back to its
\* write while self.running holds, whatever the main thread does
C36_EngineMarkerKeepsComing ==
    [](hb_pc = "sleep" => <>(hb_pc \in {"write", "delete", "killed"}))

\* C36, for the vision worker: a running worker whose buffer has no frame
\* yet comes to the write of its liveness marker, unless a frame arrives or
\* the buffer is released first.
C36_WorkerMarkerWithoutFrame ==
    [](( ff_running /\ wk_pc = "read" /\ ff_frame = 0 ) =>
          <>(wk_pc \in {"process", "crashed"} \/ ff_frame # 0 \/ ~ff_running))

(***************************************************************************)
(* The success flag of the fresh-frame buffer.                             *)
(***************************************************************************)
C37_Slot ==
    /\ ff_lock # "reader" => (ff_success <=> ff_frame # 0)
    /\ wk_pc \in {"check", "process"} => (wk_success <=> wk_frame # 0)

C37_Step ==
    /\ ff_success => ff_success'
    /\ ff_frame # 0 => ff_frame' # 0
    /\ (wk_pc = "load_frame" /\ wk_pc' = "check" /\ written # {}
          /\ ff_lock' = "free" /\ completed # 0) => wk_success'
    /\ (wk_pc = "check" /\ wk_frame # 0) => wk_pc' \in {"check", "process"}

\* C37: outside an update of the reader the slot has success = True exactly
\* when it holds a frame, and so has every pair read() returns; the flag,
\* once True, stays True whatever the source does afterwards, so a worker
\* that got a frame always goes on to process it.
C37_SuccessMonotonic == []C37_Slot /\ [][C37_Step]_vars

\* the last read of the source failed, and the worker processes the frame it
\* has published an event of in an earlier pass
C37_Witness ==
    /\ rd_pc = "sleep"
    /\ wk_pc = "process" /\ wk_success
    /\ \E i \in DOMAIN published :
          published[i].frame = wk_frame /\ published[i].id[1] < wk_reads

(***************************************************************************)
(* The episodes passed to _send_episode.                                   *)
(***************************************************************************)
\* C38: in every mode, every episode passed to _send_episode has at least
\* one frame.
C38_NoEmptyEpisode ==
    \A i \in DOMAIN sent : sent[i].frames # <<>>

\* the cap has flushed the buffer and the silence that followed has reached
\* the threshold: the cap episode is all that was delivered
C38_Witness ==
    /\ InRetrySession
    /\ Len(sent) = 1 /\ sent[1].site = "cap"
    /\ active_frames = <<>>
    /\ silence_counter >= SilenceThreshold

(***************************************************************************)
(* The alert gate when send_alert raises.                                  *)
(***************************************************************************)
LastAttemptFailed == alerts # <<>> /\ ~alerts[Len(alerts)].delivered

C39_Step ==
    GateCalled =>
        LET c == al_calls'[Len(al_calls')]
            attempted == Len(alerts') = Len(alerts) + 1
        IN  /\ last_alert_time' # last_alert_time =>
                  /\ attempted
                  /\ alerts'[Len(alerts')].delivered
                  /\ last_alert_time' = c.time
            /\ (attempted /\ ~alerts'[Len(alerts')].delivered) =>
                  last_alert_time' = last_alert_time
            /\ (LastAttemptFailed /\ HasQualifying(c.batch)) => attempted

\* C39: a call of the gate whose send_alert raises returns and leaves
\* last_alert_time as it was, so the next call with a qualifying batch calls
\* send_alert again, however soon it comes; last_alert_time is the time of
\* the last send_alert that returned.
C39_FailedSendKeepsGateOpen ==
    /\ [](last_alert_time = LastFired)
    /\ [][C39_Step]_vars

\* send_alert raised at t; the qualifying batch of t + 10 was notified
C39_Witness ==
    /\ Len(alerts) = 2
    /\ ~alerts[1].delivered
    /\ alerts[2].delivered
    /\ alerts[2].time = alerts[1].time + 10
    /\ last_alert_time = alerts[2].time

(***************************************************************************)
(* Upload and publish in the vision worker.                                *)
(***************************************************************************)
PublishedIds == {published[i].id : i \in DOMAIN published}

C40_Uploaded == PublishedIds \subseteq uploaded

C40_Step ==
    (wk_pc = "process" /\ wk_pc' # wk_pc) =>
        /\ Len(published') - Len(published) <= Cardinality(uploaded' \ uploaded)
        /\ SubSeq(published', 1, Len(published)) = published
        /\ uploaded \subseteq uploaded'
        /\ (uploaded' # uploaded \/ published' # published) => wk_pc' = "read"

\* C40: every event the worker has published names an object it has
\* uploaded before; a pass publishes at most one event per object it
\* uploaded, and after a pass with uploads or events, failed or not, the
\* worker reads the next frame.
C40_PublishAfterUpload == []C40_Uploaded /\ [][C40_Step]_vars

\* in one pass the publish of an uploaded image failed, and a later pass
\* published its event
C40_Witness ==
    /\ \E id \in uploaded : id \notin PublishedIds /\ id[1] = 1
    /\ \E i \in DOMAIN published : published[i].id[1] = 2

====
